---- MODULE Spec2Model ----
(***************************************************************************)
(* A model of the FitnessAPPv2 core: the plan generator                    *)
(* (src/WorkoutGenerator.py), the recommendation and progression engine    *)
(* (src/Engine.py) and the store they use (src/exercise_utils.py).         *)
(*                                                                         *)
(* Text is modelled at the granularity the code inspects it:               *)
(*  - a focus label such as "Upper Body/HIIT" is the sequence of its       *)
(*    slash-separated parts, each part the sequence of its words, so that  *)
(*    the substring tests of the code ("Mobility" in focus) are tests for  *)
(*    a word of the label;                                                 *)
(*  - the key "Day k" of a focus distribution is the number k; for k < 10  *)
(*    Python's sorted() on these keys is the numeric order.                *)
(***************************************************************************)
EXTENDS Integers, Sequences, FiniteSets, TLC

VARIABLES
    (* focus scheduling: _create_focus_distribution .. _normalize_focus_distribution *)
    fpc,      \* "input" | "created" | "adapted" | "normalized"
    fGoal,    \* plan_goal
    fN,       \* workouts_per_week
    fEquip,   \* equipment_access, a sequence of strings
    fDist,    \* focus_distribution: day number -> label
    (* progression: calculate_suggested_progression *)
    ppc,        \* "input" | "done"
    history,    \* workout_history, oldest log first
    suggestion, \* the dictionary returned
    (* plan repair: _validate_workout_plan, then _fix_workout_plan *)
    rpc,      \* "input" | "validated" | "fixed"
    rGoal,    \* goal
    rPlan,    \* workout_plan as the planner returned it
    rValid,   \* (is_valid, reason) of the validator
    rFixed,   \* the plan _fix_workout_plan returned
    (* the store: fitness_plans, plan_workouts, workout_logs, and the clock *)
    plans,    \* fitness_plans rows, in id order (id = position)
    workouts, \* plan_workouts rows, in id order (id = position)
    logs,     \* workout_logs rows, in insertion order
    today,    \* the current date, as a day number (day 0 is a Monday)
    (* recommendation: get_daily_recommendation, _get_muscle_recovery_status *)
    recpc,    \* "input" | "done"
    recCall,  \* the call made: [op, user_id, plan_id, fail]
    recResult, \* what the call returned, or that it raised
    (* plan creation: create_workout_plan *)
    cpc,      \* "input" | "done"
    cCall,    \* the arguments of the call and the store writes that fail
    cResult,  \* (success, plan_id or error message)
    cGrid     \* plan id -> the PlannedWorkout rows the call set out to write

focusVars == <<fpc, fGoal, fN, fEquip, fDist>>
progVars == <<ppc, history, suggestion>>
repairVars == <<rpc, rGoal, rPlan, rValid, rFixed>>

storeVars == <<plans, workouts, logs, today>>
recVars == <<recpc, recCall, recResult>>
createVars == <<cpc, cCall, cResult, cGrid>>

vars == <<focusVars, progVars, repairVars, storeVars, recVars, createVars>>

otherThanFocus == <<progVars, repairVars, storeVars, recVars, createVars>>
otherThanProg == <<focusVars, repairVars, storeVars, recVars, createVars>>
otherThanRepair == <<focusVars, progVars, storeVars, recVars, createVars>>
otherThanRec == <<focusVars, progVars, repairVars, createVars>>
otherThanCreate == <<focusVars, progVars, repairVars, recVars>>

\* The parts of the state a specification does not use stay at these values.
FocusIdle ==
    fpc = "idle" /\ fGoal = "" /\ fN = 0 /\ fEquip = <<>> /\ fDist = <<>>

ProgIdle ==
    ppc = "idle" /\ history = <<>> /\ suggestion = <<>>

RepairIdle ==
    rpc = "idle" /\ rGoal = "" /\ rPlan = <<>> /\ rValid = <<>> /\ rFixed = <<>>

StoreIdle ==
    plans = <<>> /\ workouts = <<>> /\ logs = <<>> /\ today = 0

RecIdle ==
    recpc = "idle" /\ recCall = <<>> /\ recResult = <<>>

CreateIdle ==
    cpc = "idle" /\ cCall = <<>> /\ cResult = <<>> /\ cGrid = <<>>

(***************************************************************************)
(* Goals.  The five known goals and one goal no table knows.               *)
(***************************************************************************)
KnownGoals ==
    {"Body Building", "Weight Loss", "Body Weight Fitness",
     "Mobility Exclusive", "Sports and Athletics"}

Goals == KnownGoals \cup {"General Fitness"}

(***************************************************************************)
(* Focus labels of _create_focus_distribution, tier of at most 3 days.     *)
(***************************************************************************)
P1(a) == <<a>>
P2(a, b) == <<a, b>>

FullBody == <<"Full", "Body">>
UpperBody == <<"Upper", "Body">>
LowerBody == <<"Lower", "Body">>

BaseLowTable(goal) ==
    CASE goal = "Body Building" ->
           << << <<FullBody>> >>,
              << <<UpperBody>>, <<LowerBody>> >>,
              << <<P1("Push"), P1("Chest"), P1("Shoulders")>>,
                 <<P1("Pull"), P1("Back"), P1("Arms")>>,
                 <<P1("Legs"), P1("Glutes")>> >> >>
      [] goal = "Weight Loss" ->
           << << <<FullBody, P1("HIIT")>> >>,
              << <<P1("Cardio"), P1("HIIT")>>,
                 <<P1("Strength"), FullBody>> >>,
              << <<UpperBody, P1("HIIT")>>,
                 <<LowerBody, P1("HIIT")>>,
                 <<FullBody, P1("Cardio")>> >> >>
      [] goal = "Body Weight Fitness" ->
           << << <<FullBody, P1("Calisthenics")>> >>,
              << <<UpperBody, P1("Core")>>,
                 <<LowerBody, P1("Mobility")>> >>,
              << <<P1("Push"), P1("Core")>>,
                 <<P1("Pull"), P1("Flexibility")>>,
                 <<P1("Legs"), P1("Cardio")>> >> >>
      [] goal = "Mobility Exclusive" ->
           << << <<FullBody, P1("Mobility")>> >>,
              << <<UpperBody, P1("Mobility")>>,
                 <<LowerBody, P1("Mobility")>> >>,
              << <<P1("Dynamic"), P1("Flow")>>,
                 <<P1("Strength"), P1("Stability")>>,
                 <<P2("Deep", "Stretch"), P1("Recovery")>> >> >>
      [] goal = "Sports and Athletics" ->
           << << <<FullBody, P1("Athletic")>> >>,
              << <<P1("Power"), P1("Strength")>>,
                 <<P1("Speed"), P1("Agility")>> >>,
              << <<UpperBody, P1("Power")>>,
                 <<LowerBody, P1("Speed")>>,
                 <<P1("Core"), P1("Agility")>> >> >>

\* goal_distro.get(workouts_per_week, {"Day 1": "Full Body"})
BaseLow(goal, n) ==
    IF n \in 1..3 THEN BaseLowTable(goal)[n] ELSE << <<FullBody>> >>

(***************************************************************************)
(* Tier of 4-5 days: one table of five labels per goal.                    *)
(***************************************************************************)
BaseMid(goal) ==
    CASE goal = "Body Building" ->
           << <<P1("Chest"), P1("Triceps")>>,
              <<P1("Back"), P1("Biceps")>>,
              <<P1("Legs"), P1("Glutes")>>,
              <<P1("Shoulders"), P1("Arms")>>,
              <<P2("Lagging", "Areas"), P1("Core")>> >>
      [] goal = "Weight Loss" ->
           << <<UpperBody, P1("HIIT")>>,
              <<LowerBody, P1("HIIT")>>,
              <<P1("Cardio"), P1("HIIT")>>,
              << <<"Full", "Body", "Circuit">> >>,
              <<P2("Active", "Recovery"), P1("Mobility")>> >>
      [] goal = "Body Weight Fitness" ->
           << <<P1("Push"), P1("Core")>>,
              <<P1("Pull"), P1("Arms")>>,
              <<P1("Legs"), P1("Plyometrics")>>,
              <<UpperBody, P1("Skill")>>,
              <<P1("Core"), P1("Mobility")>> >>
      [] goal = "Mobility Exclusive" ->
           << <<UpperBody, P1("Mobility")>>,
              <<LowerBody, P1("Mobility")>>,
              <<P2("Dynamic", "Flow"), P1("Balance")>>,
              <<P1("Yoga"), P1("Stretch")>>,
              <<P1("Corrective"), P1("Stability")>> >>
      [] goal = "Sports and Athletics" ->
           << <<UpperBody, P1("Power")>>,
              <<LowerBody, P1("Strength")>>,
              <<P1("Core"), P1("Rotational")>>,
              <<P1("Power"), P1("Plyometrics")>>,
              <<P1("Speed"), P1("Agility"), P1("Conditioning")>> >>

(***************************************************************************)
(* Tier of 6-7 days: one table of seven labels per goal.                   *)
(***************************************************************************)
BaseHigh(goal) ==
    CASE goal = "Body Building" ->
           << <<P1("Chest"), P1("Triceps")>>,
              <<P1("Back"), P1("Biceps")>>,
              <<P1("Legs"), P1("Calves")>>,
              <<P1("Shoulders"), P1("Arms")>>,
              <<P1("Chest"), P1("Back")>>,
              <<P1("Legs"), P1("Core")>>,
              << P2("Active", "Recovery") >> >>
      [] goal = "Weight Loss" ->
           << <<P2("Upper", "Push"), P1("HIIT")>>,
              <<P2("Upper", "Pull"), P1("HIIT")>>,
              <<LowerBody, P1("HIIT")>>,
              <<P1("Cardio"), P1("Intervals")>>,
              << <<"Full", "Body", "Circuit">> >>,
              <<P1("Cardio"), P2("Fat", "Burn")>>,
              <<P2("Active", "Recovery"), P1("Mobility")>> >>
      [] goal = "Body Weight Fitness" ->
           << <<P1("Push"), P1("Core")>>,
              <<P1("Pull"), P1("Arms")>>,
              <<P1("Legs"), P1("Lower")>>,
              <<P2("Push", "Variation"), P1("Skill")>>,
              <<P2("Pull", "Variation"), P1("Core")>>,
              <<P1("Skills"), P1("Technique")>>,
              <<P1("Mobility"), P1("Recovery")>> >>
      [] goal = "Mobility Exclusive" ->
           << <<UpperBody, P1("Mobility")>>,
              <<LowerBody, P1("Mobility")>>,
              <<P2("Dynamic", "Flow"), P1("Balance")>>,
              <<P2("Deep", "Stretch"), P1("Flexibility")>>,
              <<P1("Yoga"), P1("Integration")>>,
              <<P1("Corrective"), P1("Prehab")>>,
              <<P2("Gentle", "Recovery"), P1("Restoration")>> >>
      [] goal = "Sports and Athletics" ->
           << <<UpperBody, P1("Power")>>,
              <<LowerBody, P1("Strength")>>,
              <<P1("Core"), P1("Stability")>>,
              <<P1("Power"), P1("Explosiveness")>>,
              <<P1("Speed"), P1("Agility")>>,
              <<P1("Conditioning"), P1("Endurance")>>,
              <<P1("Recovery"), P1("Mobility")>> >>

\* dict.get(goal, base_distributions["Sports and Athletics"])
TableGoal(goal) == IF goal \in KnownGoals THEN goal ELSE "Sports and Athletics"

\* _create_focus_distribution(workouts_per_week, goal, ...)
CreateFocusDistribution(n, goal) ==
    IF n <= 3
    THEN BaseLow(TableGoal(goal), n)
    ELSE IF n <= 5 THEN BaseMid(TableGoal(goal))
    ELSE BaseHigh(TableGoal(goal))

\* "word" in focus
LabelHas(label, word) ==
    \E i \in DOMAIN label : \E j \in DOMAIN label[i] : label[i][j] = word

\* "No Equipment" in equipment_access or len(equipment_access) <= 1
LimitedEquipment(equipment) ==
    \/ \E i \in DOMAIN equipment : equipment[i] = "No Equipment"
    \/ Len(equipment) <= 1

\* the new label of one day in _adapt_for_equipment
AdaptLabel(label) ==
    IF ~LabelHas(label, "Bodyweight")
    THEN IF LabelHas(label, "Mobility") \/ LabelHas(label, "Recovery")
         THEN label
         ELSE Append(label, P1("Bodyweight"))
    ELSE label

\* _adapt_for_equipment(focus_distribution, equipment_access)
AdaptForEquipment(dist, equipment) ==
    IF LimitedEquipment(equipment)
    THEN [d \in DOMAIN dist |-> AdaptLabel(dist[d])]
    ELSE dist

\* the k smallest elements of a set of day numbers: sorted(keys)[:k]
RECURSIVE FirstKeys(_, _)
FirstKeys(S, k) ==
    IF k <= 0 \/ S = {} THEN {}
    ELSE LET m == CHOOSE x \in S : \A y \in S : x <= y
         IN {m} \cup FirstKeys(S \ {m}, k - 1)

\* a normalization that pads but never truncates
NormalizeFocusDistribution_NoTruncate(dist, n) ==
    LET len == Cardinality(DOMAIN dist) IN
    IF len < n
    THEN LET added == (len + 1)..n IN
         [d \in (DOMAIN dist) \cup added |->
            IF d \in added
            THEN IF d % 3 = 0 THEN <<P1("Recovery"), P1("Mobility")>>
                 ELSE <<FullBody>>
            ELSE dist[d]]
    ELSE dist

\* _normalize_focus_distribution(focus_distribution, workouts_per_week)
NormalizeFocusDistribution(dist, n) ==
    LET len == Cardinality(DOMAIN dist) IN
    IF len < n
    THEN LET added == (len + 1)..n IN
         [d \in (DOMAIN dist) \cup added |->
            IF d \in added
            THEN IF d % 3 = 0 THEN <<P1("Recovery"), P1("Mobility")>>
                 ELSE <<FullBody>>
            ELSE dist[d]]
    ELSE IF len > n
    THEN [d \in FirstKeys(DOMAIN dist, n) |-> dist[d]]
    ELSE dist

(***************************************************************************)
(* The focus scheduling pipeline of create_workout_plan, one step a time.  *)
(***************************************************************************)
WorkoutsPerWeek == 1..7

EquipmentLists ==
    { <<>>, <<"No Equipment">>, <<"Full Gym">>,
      <<"Dumbbells", "Barbell">>, <<"Dumbbells", "No Equipment">> }

FocusInit ==
    /\ fpc = "input"
    /\ fGoal \in Goals
    /\ fN \in WorkoutsPerWeek
    /\ fEquip \in EquipmentLists
    /\ fDist = <<>>
    /\ ProgIdle /\ RepairIdle /\ StoreIdle /\ RecIdle /\ CreateIdle

FocusCreate ==
    /\ fpc = "input"
    /\ fDist' = CreateFocusDistribution(fN, fGoal)
    /\ fpc' = "created"
    /\ UNCHANGED <<fGoal, fN, fEquip, otherThanFocus>>

FocusAdapt ==
    /\ fpc = "created"
    /\ fDist' = AdaptForEquipment(fDist, fEquip)
    /\ fpc' = "adapted"
    /\ UNCHANGED <<fGoal, fN, fEquip, otherThanFocus>>

FocusNormalize ==
    /\ fpc = "adapted"
    /\ fDist' = NormalizeFocusDistribution(fDist, fN)
    /\ fpc' = "normalized"
    /\ UNCHANGED <<fGoal, fN, fEquip, otherThanFocus>>

FocusNext == FocusCreate \/ FocusAdapt \/ FocusNormalize

SpecFocus == FocusInit /\ [][FocusNext]_vars

\* C4: after create, adapt and normalize the focus distribution has exactly
\* workouts_per_week day-labels, with the keys Day 1 .. Day n.
C4_ExactlyNDays ==
    fpc = "normalized" => DOMAIN fDist = 1..fN

\* C4 witness: a 4-day request, for which the 5-label table was truncated.
C4_Witness ==
    fpc = "normalized" /\ fN = 4 /\ fEquip = <<"No Equipment">>
        /\ DOMAIN fDist = 1..4

\* a label names the word in one of its parts
C26_Names(label, word) ==
    \E i \in DOMAIN label : \E j \in DOMAIN label[i] : label[i][j] = word

\* the label with the /Bodyweight suffix where it names none of Mobility,
\* Recovery and Bodyweight
C26_Suffixed(label) ==
    IF C26_Names(label, "Mobility") \/ C26_Names(label, "Recovery")
       \/ C26_Names(label, "Bodyweight")
    THEN label
    ELSE label \o << <<"Bodyweight">> >>

\* C26: _adapt_for_equipment appends /Bodyweight to every label that names
\* neither Mobility nor Recovery (nor Bodyweight already) exactly when the
\* equipment list is empty or is the single entry "No Equipment"; for every
\* other equipment list, the single entry "Full Gym" among them, it returns
\* all labels unchanged.
C26_SuffixOnlyWithoutEquipment ==
    fpc = "adapted" =>
        \A d \in DOMAIN fDist :
            fDist[d] = IF fEquip \in {<<>>, <<"No Equipment">>}
                       THEN C26_Suffixed(CreateFocusDistribution(fN, fGoal)[d])
                       ELSE CreateFocusDistribution(fN, fGoal)[d]

(***************************************************************************)
(* Exercises.  An exercise is the dictionary the planner and the repair    *)
(* tables use.  body_part is the lower-cased list of its slash-separated   *)
(* parts (body_part.lower().split('/'), stripped); a fallback entry has no *)
(* 'level' key, so its level is the empty string of exercise.get.          *)
(***************************************************************************)
Ex(id, title, type, parts, equip) ==
    [id |-> id, title |-> title, exercise_type |-> type,
     body_part |-> parts, equipment |-> equip, level |-> ""]

\* 'kw' in exercise.get('exercise_type', '').lower(), for the type names used
TypeHas(e, kw) ==
    CASE e.exercise_type = "Compound" -> kw = "compound"
      [] e.exercise_type = "Isolation" -> kw = "isolation"
      [] e.exercise_type = "Cardio" -> kw = "cardio"
      [] e.exercise_type = "HIIT" -> kw = "hiit"
      [] e.exercise_type = "Mobility" -> kw = "mobility"
      [] e.exercise_type = "Flexibility" -> kw = "flexibility"
      [] OTHER -> FALSE

\* 'kw' in exercise.get('title', '').lower(), for the titles used
TitleHas(e, kw) ==
    CASE kw = "hiit" -> e.title \in {"HIIT Sprint Intervals", "HIIT Bike"}
      [] kw = "cardio" -> e.title \in {"Cardio Kickboxing"}
      [] kw = "stretch" ->
           e.title \in {"Cat-Cow Stretch", "Deep Lunge Stretch", "Hip 90/90 Stretch",
                        "Hip Flexor Stretch", "Dynamic Stretching", "Hamstring Stretch"}
      [] OTHER -> FALSE

\* 'kw' in exercise.get('equipment', '').lower(), for the equipment used
EquipmentHas(e, kw) ==
    CASE kw = "bodyweight" -> e.equipment = "Bodyweight"
      [] kw = "no equipment" -> e.equipment = "No Equipment"
      [] OTHER -> FALSE

\* "kw" in goal
GoalHas(goal, kw) ==
    CASE kw = "Body Building" -> goal = "Body Building"
      [] kw = "Weight Loss" -> goal = "Weight Loss"
      [] kw = "Mobility" -> goal = "Mobility Exclusive"
      [] kw = "Body Weight" -> goal = "Body Weight Fitness"
      [] kw = "Sports" -> goal = "Sports and Athletics"
      [] kw = "Athletic" -> goal = "Sports and Athletics"
      [] OTHER -> FALSE

(***************************************************************************)
(* The fixed fallback tables of the repair.                                *)
(***************************************************************************)
DefaultsOf(category) ==
    CASE category = "chest" ->
           << Ex(-1, "Push-ups", "Compound", <<"chest">>, "Bodyweight"),
              Ex(-2, "Incline Push-ups", "Compound", <<"chest">>, "Bodyweight"),
              Ex(-3, "Chest Dips", "Compound", <<"chest", "triceps">>, "Bodyweight") >>
      [] category = "back" ->
           << Ex(-4, "Pull-ups", "Compound", <<"back">>, "Bodyweight"),
              Ex(-5, "Inverted Rows", "Compound", <<"back">>, "Bodyweight"),
              Ex(-6, "Superman Hold", "Isolation", <<"back">>, "Bodyweight") >>
      [] category = "legs" ->
           << Ex(-7, "Bodyweight Squats", "Compound", <<"legs">>, "Bodyweight"),
              Ex(-8, "Lunges", "Compound", <<"legs">>, "Bodyweight"),
              Ex(-9, "Glute Bridges", "Isolation", <<"glutes">>, "Bodyweight") >>
      [] category = "shoulders" ->
           << Ex(-10, "Pike Push-ups", "Compound", <<"shoulders">>, "Bodyweight"),
              Ex(-11, "Handstand Hold", "Compound", <<"shoulders">>, "Bodyweight"),
              Ex(-12, "Lateral Raises", "Isolation", <<"shoulders">>, "Dumbbells") >>
      [] category = "arms" ->
           << Ex(-13, "Tricep Dips", "Isolation", <<"triceps">>, "Bodyweight"),
              Ex(-14, "Chin-ups", "Compound", <<"biceps", "back">>, "Bodyweight"),
              Ex(-15, "Diamond Push-ups", "Compound", <<"triceps">>, "Bodyweight") >>
      [] category = "core" ->
           << Ex(-16, "Plank", "Isolation", <<"core">>, "Bodyweight"),
              Ex(-17, "Russian Twists", "Isolation", <<"core">>, "Bodyweight"),
              Ex(-18, "Leg Raises", "Isolation", <<"core">>, "Bodyweight") >>
      [] category = "cardio" ->
           << Ex(-19, "Jumping Jacks", "Cardio", <<"full body">>, "Bodyweight"),
              Ex(-20, "Mountain Climbers", "Cardio", <<"full body">>, "Bodyweight"),
              Ex(-21, "Burpees", "Cardio", <<"full body">>, "Bodyweight") >>
      [] category = "mobility" ->
           << Ex(-22, "Hip Flexor Stretch", "Mobility", <<"hips">>, "Bodyweight"),
              Ex(-23, "Shoulder Dislocates", "Mobility", <<"shoulders">>, "Bodyweight"),
              Ex(-24, "Ankle Mobility", "Mobility", <<"ankles">>, "Bodyweight") >>
      [] category = "full" ->
           << Ex(-25, "Burpees", "Compound", <<"full body">>, "Bodyweight"),
              Ex(-26, "Mountain Climbers", "Cardio", <<"full body">>, "Bodyweight"),
              Ex(-27, "Jump Squats", "Compound", <<"legs">>, "Bodyweight") >>
      [] category = "isolation" ->
           << Ex(-28, "Dumbbell Curls", "Isolation", <<"biceps">>, "Dumbbells"),
              Ex(-29, "Lateral Raises", "Isolation", <<"shoulders">>, "Dumbbells"),
              Ex(-30, "Tricep Extensions", "Isolation", <<"triceps">>, "Dumbbells") >>
      [] category = "hiit" ->
           << Ex(-31, "HIIT Sprint Intervals", "Cardio", <<"full body">>, "Bodyweight"),
              Ex(-32, "Tabata Squats", "Cardio", <<"legs">>, "Bodyweight"),
              Ex(-33, "Circuit Training", "Cardio", <<"full body">>, "Bodyweight") >>
      [] category = "flexibility" ->
           << Ex(-34, "Yoga Flow", "Mobility", <<"full body">>, "Bodyweight"),
              Ex(-35, "Dynamic Stretching", "Mobility", <<"full body">>, "Bodyweight"),
              Ex(-36, "Joint Mobility", "Mobility", <<"full body">>, "Bodyweight") >>

IsolationPool ==
    << Ex(-1001, "Bicep Curls", "Isolation", <<"biceps">>, "Dumbbells"),
       Ex(-1002, "Tricep Extensions", "Isolation", <<"triceps">>, "Dumbbells"),
       Ex(-1003, "Lateral Raises", "Isolation", <<"shoulders">>, "Dumbbells"),
       Ex(-1004, "Chest Flyes", "Isolation", <<"chest">>, "Dumbbells"),
       Ex(-1005, "Leg Extensions", "Isolation", <<"quads">>, "Machine"),
       Ex(-1006, "Leg Curls", "Isolation", <<"hamstrings">>, "Machine"),
       Ex(-1007, "Calf Raises", "Isolation", <<"calves">>, "Bodyweight"),
       Ex(-1008, "Face Pulls", "Isolation", <<"rear delts">>, "Cable"),
       Ex(-1009, "Concentration Curls", "Isolation", <<"biceps">>, "Dumbbells"),
       Ex(-1010, "Tricep Kickbacks", "Isolation", <<"triceps">>, "Dumbbells") >>

CardioPool ==
    << Ex(-2001, "HIIT Sprint Intervals", "Cardio", <<"full body">>, "Bodyweight"),
       Ex(-2002, "Jump Rope", "Cardio", <<"full body">>, "Jump Rope"),
       Ex(-2003, "Burpees", "Cardio", <<"full body">>, "Bodyweight"),
       Ex(-2004, "Mountain Climbers", "Cardio", <<"full body">>, "Bodyweight"),
       Ex(-2005, "Jumping Jacks", "Cardio", <<"full body">>, "Bodyweight"),
       Ex(-2006, "Box Jumps", "Cardio", <<"legs">>, "Box"),
       Ex(-2007, "Battle Ropes", "Cardio", <<"arms", "shoulders">>, "Battle Ropes"),
       Ex(-2008, "Rowing Machine", "Cardio", <<"full body">>, "Machine"),
       Ex(-2009, "Stair Climber", "Cardio", <<"legs">>, "Machine"),
       Ex(-2010, "Cycling Intervals", "Cardio", <<"legs">>, "Bike") >>

MobilityPool ==
    << Ex(-3001, "Hip Flexor Stretch", "Mobility", <<"hips">>, "Bodyweight"),
       Ex(-3002, "Shoulder Dislocates", "Mobility", <<"shoulders">>, "Resistance Band"),
       Ex(-3003, "Ankle Mobility Drill", "Mobility", <<"ankles">>, "Bodyweight"),
       Ex(-3004, "Thoracic Bridge", "Mobility", <<"spine">>, "Bodyweight"),
       Ex(-3005, "Cat-Cow Stretch", "Mobility", <<"spine">>, "Bodyweight"),
       Ex(-3006, "Jefferson Curl", "Mobility", <<"hamstrings", "back">>, "Bodyweight"),
       Ex(-3007, "Wrist Mobility", "Mobility", <<"wrists">>, "Bodyweight"),
       Ex(-3008, "Squat Mobility", "Mobility", <<"hips", "ankles">>, "Bodyweight"),
       Ex(-3009, "Hip 90/90 Stretch", "Mobility", <<"hips">>, "Bodyweight"),
       Ex(-3010, "Deep Lunge Stretch", "Mobility", <<"hip flexors">>, "Bodyweight") >>

BodyweightPool ==
    << Ex(-4001, "Push-ups", "Compound", <<"chest", "triceps">>, "Bodyweight"),
       Ex(-4002, "Pull-ups", "Compound", <<"back", "biceps">>, "Bodyweight"),
       Ex(-4003, "Bodyweight Squats", "Compound", <<"legs">>, "Bodyweight"),
       Ex(-4004, "Dips", "Compound", <<"chest", "triceps">>, "Bodyweight"),
       Ex(-4005, "Inverted Rows", "Compound", <<"back">>, "Bodyweight"),
       Ex(-4006, "Pike Push-ups", "Compound", <<"shoulders">>, "Bodyweight"),
       Ex(-4007, "Pistol Squats", "Compound", <<"legs">>, "Bodyweight"),
       Ex(-4008, "L-Sit Hold", "Isolation", <<"core">>, "Bodyweight"),
       Ex(-4009, "Plank", "Isolation", <<"core">>, "Bodyweight"),
       Ex(-4010, "Hollow Body Hold", "Isolation", <<"core">>, "Bodyweight") >>

Leveled(e, level) == [e EXCEPT !.level = level]

\* The exercise catalog of the store (exercises table): positive ids.
Catalog ==
    << Ex(1, "Bench Press", "Compound", <<"chest", "arms">>, "Barbell"),
       Ex(2, "Barbell Row", "Compound", <<"back", "arms">>, "Barbell"),
       Ex(3, "Back Squat", "Compound", <<"legs", "core">>, "Barbell"),
       Ex(4, "Overhead Press", "Compound", <<"shoulders", "core">>, "Barbell"),
       Ex(5, "Deadlift", "Compound", <<"back", "legs">>, "Barbell"),
       Ex(6, "Dumbbell Fly", "Isolation", <<"chest", "shoulders">>, "Dumbbells"),
       Ex(7, "Treadmill Run", "Cardio", <<"full body">>, "Machine"),
       Ex(8, "Cable Curl", "Isolation", <<"arms">>, "Cable"),
       Ex(9, "Hamstring Stretch", "Mobility", <<"legs">>, "Bodyweight"),
       Leveled(Ex(10, "Push-ups", "Compound", <<"chest", "arms">>, "Bodyweight"), "Beginner"),
       Ex(11, "Pull-ups", "Compound", <<"back", "arms">>, "Bodyweight"),
       Leveled(Ex(12, "Plank", "Isolation", <<"core">>, "Bodyweight"), "Beginner"),
       Ex(13, "Bodyweight Squats", "Compound", <<"legs", "core">>, "Bodyweight"),
       Ex(14, "Pike Push-ups", "Compound", <<"shoulders", "chest">>, "Bodyweight"),
       Ex(15, "HIIT Bike", "HIIT", <<"legs">>, "Bike"),
       Ex(16, "Yoga Flow", "Mobility", <<"full body">>, "Bodyweight"),
       Ex(17, "Band Pull-apart", "Isolation", <<"shoulders", "back">>, "No Equipment") >>

\* the keys of `defaults`, in insertion order
DefaultsOrder(goal) ==
    <<"chest", "back", "legs", "shoulders", "arms", "core", "cardio", "mobility", "full">>
    \o (IF GoalHas(goal, "Body Building") THEN <<"isolation">>
        ELSE IF GoalHas(goal, "Weight Loss") THEN <<"hiit">>
        ELSE IF GoalHas(goal, "Mobility") THEN <<"flexibility">>
        ELSE <<>>)

Range(q) == {q[i] : i \in DOMAIN q}

Min2(a, b) == IF a <= b THEN a ELSE b
Max2(a, b) == IF a >= b THEN a ELSE b

RECURSIVE Flatten(_)
Flatten(qq) == IF qq = <<>> THEN <<>> ELSE Head(qq) \o Flatten(Tail(qq))

\* every entry of every category of `defaults`
AllDefaults(goal) ==
    Flatten([i \in DOMAIN DefaultsOrder(goal) |-> DefaultsOf(DefaultsOrder(goal)[i])])

(***************************************************************************)
(* A plan is the sequence of its days in dictionary order; a day is its    *)
(* key and its exercise list.  A key is "Day n", optionally followed by    *)
(* focus text; `words` are the lower-cased words of that text, which is    *)
(* what the substring tests on day.lower() can see.                        *)
(***************************************************************************)
WithId(e, id) == [e EXCEPT !.id = id]

\* categories = [c for c in defaults.keys() if c in day_focus], or the
\* goal's default categories
PadCategories(words, goal) ==
    LET matched == SelectSeq(DefaultsOrder(goal), LAMBDA c : c \in words) IN
    IF matched # <<>> THEN matched
    ELSE IF GoalHas(goal, "Body Building")
         THEN <<"chest", "back", "legs", "shoulders", "arms">>
    ELSE IF GoalHas(goal, "Weight Loss") THEN <<"cardio", "hiit", "full">>
    ELSE IF GoalHas(goal, "Mobility") THEN <<"mobility", "flexibility">>
    ELSE <<"full">>

\* the loop over the categories: what it adds, and what is still wanted
RECURSIVE PadFromCategories(_, _, _, _)
PadFromCategories(cats, i, remaining, perCategory) ==
    IF i > Len(cats) THEN [added |-> <<>>, remaining |-> remaining]
    ELSE LET entries == DefaultsOf(cats[i])
             to_add == Min2(remaining, Min2(perCategory, Len(entries)))
             copies == [j \in 1..to_add |-> WithId(entries[j], -1000 - (j - 1))]
             left == remaining - to_add
         IN IF left <= 0
            THEN [added |-> copies, remaining |-> left]
            ELSE LET rest == PadFromCategories(cats, i + 1, left, perCategory)
                 IN [added |-> copies \o rest.added, remaining |-> rest.remaining]

\* _get_additional_exercises(day_focus, goal, count): every list it can
\* return.  The entries beyond the categories are random.choice draws.
AdditionalExercises(words, goal, count) ==
    LET cats == PadCategories(words, goal)
        fromCats == PadFromCategories(cats, 1, count, Max2(1, count \div Len(cats)))
        r == fromCats.remaining
        pool == Range(AllDefaults(goal))
    IN IF r > 0
       THEN {fromCats.added \o [i \in 1..r |-> WithId(pick[i], -2000 - (i - 1))]
               : pick \in [1..r -> pool]}
       ELSE {fromCats.added}

\* all_exercises: the exercises of every day, in order
AllExercises(plan) == Flatten([i \in DOMAIN plan |-> plan[i].exercises])

IsIsolation(e) == TypeHas(e, "isolation")
IsCardioType(e) == TypeHas(e, "cardio")
IsMobilityType(e) == TypeHas(e, "mobility")
IsBodyweight(e) == EquipmentHas(e, "bodyweight")

\* the validator's cardio test: type or title names cardio or HIIT
IsCardioForValidator(e) ==
    TypeHas(e, "cardio") \/ TypeHas(e, "hiit") \/ TitleHas(e, "hiit") \/ TitleHas(e, "cardio")

\* the validator's mobility test
IsMobilityForValidator(e) ==
    TypeHas(e, "mobility") \/ TypeHas(e, "flexibility") \/ TitleHas(e, "stretch")

\* the validator's bodyweight test
IsBodyweightForValidator(e) ==
    EquipmentHas(e, "bodyweight") \/ EquipmentHas(e, "no equipment")

IsolationCount(q) == Cardinality({i \in DOMAIN q : IsIsolation(q[i])})
CardioTypeCount(q) == Cardinality({i \in DOMAIN q : IsCardioType(q[i])})
MobilityTypeCount(q) == Cardinality({i \in DOMAIN q : IsMobilityType(q[i])})
BodyweightCount(q) == Cardinality({i \in DOMAIN q : IsBodyweight(q[i])})
ValidatorCardioCount(q) == Cardinality({i \in DOMAIN q : IsCardioForValidator(q[i])})
ValidatorMobilityCount(q) == Cardinality({i \in DOMAIN q : IsMobilityForValidator(q[i])})
ValidatorBodyweightCount(q) == Cardinality({i \in DOMAIN q : IsBodyweightForValidator(q[i])})

\* muscle_counts[muscle]: one count per part of a body_part that is the muscle
MuscleCount(q, muscle) ==
    Cardinality(UNION {{<<i, j>> : j \in {k \in DOMAIN q[i].body_part :
                                               q[i].body_part[k] = muscle}}
                       : i \in DOMAIN q})

MajorMuscles == {"chest", "back", "legs", "shoulders", "arms", "core"}

MinExercisesPerDay == 6
MinPerMuscle == 2
PadTo == 8

\* the goal rule of the validator as the code has it: which rule applies, and
\* whether the plan fails it
GoalRule(plan, goal) ==
    LET all == AllExercises(plan) IN
    IF GoalHas(goal, "Body Building")
    THEN [reason |-> "isolation", fails |-> 10 * IsolationCount(all) < 3 * Len(all)]
    ELSE IF GoalHas(goal, "Weight Loss")
    THEN [reason |-> "cardio", fails |-> 10 * ValidatorCardioCount(all) < 15 * Len(plan)]
    ELSE IF GoalHas(goal, "Mobility")
    THEN [reason |-> "mobility", fails |-> 10 * ValidatorMobilityCount(all) < 4 * Len(all)]
    ELSE IF GoalHas(goal, "Body Weight")
    THEN [reason |-> "bodyweight",
          fails |-> 10 * ValidatorBodyweightCount(all) < 7 * Len(all)]
    ELSE [reason |-> "ok", fails |-> FALSE]

\* a validator that lets a plan pass with one exercise per major muscle
ValidateWorkoutPlan_OnePerMuscle(plan, goal) ==
    IF \E d \in DOMAIN plan : Len(plan[d].exercises) < MinExercisesPerDay
    THEN [valid |-> FALSE, reason |-> "exercises"]
    ELSE IF \E m \in MajorMuscles : MuscleCount(AllExercises(plan), m) < 1
    THEN [valid |-> FALSE, reason |-> "muscles"]
    ELSE IF GoalRule(plan, goal).fails
    THEN [valid |-> FALSE, reason |-> GoalRule(plan, goal).reason]
    ELSE [valid |-> TRUE, reason |-> "ok"]

\* a validator that looks at the goal rule before the muscle groups
ValidateWorkoutPlan_GoalFirst(plan, goal) ==
    IF \E d \in DOMAIN plan : Len(plan[d].exercises) < MinExercisesPerDay
    THEN [valid |-> FALSE, reason |-> "exercises"]
    ELSE IF GoalRule(plan, goal).fails
    THEN [valid |-> FALSE, reason |-> GoalRule(plan, goal).reason]
    ELSE IF \E m \in MajorMuscles : MuscleCount(AllExercises(plan), m) < MinPerMuscle
    THEN [valid |-> FALSE, reason |-> "muscles"]
    ELSE [valid |-> TRUE, reason |-> "ok"]

(***************************************************************************)
(* _validate_workout_plan.  The reason is named by the rule that failed.   *)
(* The float products len * 0.3, * 0.4, * 0.7 and * 1.5 and their int()    *)
(* agree with the exact fractions for every length below 90.               *)
(***************************************************************************)
ValidateWorkoutPlan(plan, goal) ==
    LET all == AllExercises(plan) IN
    IF \E d \in DOMAIN plan : Len(plan[d].exercises) < MinExercisesPerDay
    THEN [valid |-> FALSE, reason |-> "exercises"]
    ELSE IF \E m \in MajorMuscles : MuscleCount(all, m) < MinPerMuscle
    THEN [valid |-> FALSE, reason |-> "muscles"]
    ELSE IF GoalHas(goal, "Body Building")
    THEN IF 10 * IsolationCount(all) < 3 * Len(all)
         THEN [valid |-> FALSE, reason |-> "isolation"]
         ELSE [valid |-> TRUE, reason |-> "ok"]
    ELSE IF GoalHas(goal, "Weight Loss")
    THEN IF 10 * ValidatorCardioCount(all) < 15 * Len(plan)
         THEN [valid |-> FALSE, reason |-> "cardio"]
         ELSE [valid |-> TRUE, reason |-> "ok"]
    ELSE IF GoalHas(goal, "Mobility")
    THEN IF 10 * ValidatorMobilityCount(all) < 4 * Len(all)
         THEN [valid |-> FALSE, reason |-> "mobility"]
         ELSE [valid |-> TRUE, reason |-> "ok"]
    ELSE IF GoalHas(goal, "Body Weight")
    THEN IF 10 * ValidatorBodyweightCount(all) < 7 * Len(all)
         THEN [valid |-> FALSE, reason |-> "bodyweight"]
         ELSE [valid |-> TRUE, reason |-> "ok"]
    ELSE [valid |-> TRUE, reason |-> "ok"]

(***************************************************************************)
(* _fix_workout_plan.  Its random draws make it a relation: the operators  *)
(* below give every plan it can return.                                    *)
(***************************************************************************)
\* a padding that puts the additional exercises in place of the day's own
PaddedDays_Replace(day, goal) ==
    IF Len(day.exercises) < PadTo
    THEN {[day EXCEPT !.exercises = extra] :
             extra \in AdditionalExercises(day.key.words, goal, PadTo - Len(day.exercises))}
    ELSE {day}

\* the first loop, for one day: pad a day of fewer than 8 exercises
PaddedDays(day, goal) ==
    IF Len(day.exercises) < PadTo
    THEN {[day EXCEPT !.exercises = @ \o extra] :
             extra \in AdditionalExercises(day.key.words, goal, PadTo - Len(day.exercises))}
    ELSE {day}

RECURSIVE PaddedPlans(_, _)
PaddedPlans(plan, goal) ==
    IF plan = <<>> THEN {<<>>}
    ELSE {<<d>> \o rest : d \in PaddedDays(Head(plan), goal),
                          rest \in PaddedPlans(Tail(plan), goal)}

\* the sequences of k distinct elements of S
RECURSIVE InjSeqs(_, _)
InjSeqs(S, k) ==
    IF k <= 0 THEN {<<>>}
    ELSE UNION {{Append(q, x) : x \in S \ Range(q)} : q \in InjSeqs(S, k - 1)}

\* Body Building: the sample is handed out day by day to the days whose key
\* names a body part of the exercise; what is left goes to the first day.
RECURSIVE DistributeIsolation(_, _, _)
DistributeIsolation(plan, i, isolation) ==
    IF i > Len(plan) \/ isolation = <<>>
    THEN IF isolation = <<>> \/ plan = <<>> THEN plan
         ELSE [plan EXCEPT ![1].exercises = @ \o isolation]
    ELSE LET Matches(e) == \E j \in DOMAIN e.body_part :
                               e.body_part[j] \in plan[i].key.words
             taken == SelectSeq(isolation, Matches)
             left == SelectSeq(isolation, LAMBDA e : ~Matches(e))
         IN DistributeIsolation([plan EXCEPT ![i].exercises = @ \o taken], i + 1, left)

IsolationNeeded(plan) ==
    (3 * Len(AllExercises(plan))) \div 10 - IsolationCount(AllExercises(plan))

FixBodyBuilding(plan) ==
    LET needed == IsolationNeeded(plan) IN
    IF needed > 0
    THEN {DistributeIsolation(plan, 1, sample) :
             sample \in InjSeqs(Range(IsolationPool), Min2(needed, Len(IsolationPool)))}
    ELSE {plan}

\* Weight Loss: one cardio entry per day, the days with least cardio first
\* (sorted() is stable: ties keep the dictionary order).
CardioNeeded(plan) ==
    (15 * Len(plan)) \div 10 - CardioTypeCount(AllExercises(plan))

CardioRank(plan, d) ==
    LET c(x) == CardioTypeCount(plan[x].exercises) IN
    1 + Cardinality({x \in DOMAIN plan : c(x) < c(d) \/ (c(x) = c(d) /\ x < d)})

\* Of random.sample(cardio, k) only the first len(fixed_plan) entries are
\* popped, so the draws are the sequences of that many distinct entries.
CardioUsed(plan) == Min2(Min2(CardioNeeded(plan), Len(CardioPool)), Len(plan))

\* a cardio repair that takes its exercise from the catalog
FixWeightLoss_FromCatalog(plan) ==
    IF CardioNeeded(plan) > 0
    THEN {[d \in DOMAIN plan |-> [plan[d] EXCEPT !.exercises = Append(@, c)]]
          : c \in {Catalog[i] : i \in {j \in DOMAIN Catalog : IsCardioType(Catalog[j])}}}
    ELSE {plan}

FixWeightLoss(plan) ==
    IF CardioNeeded(plan) > 0
    THEN {[d \in DOMAIN plan |->
              IF CardioRank(plan, d) <= Len(sample)
              THEN [plan[d] EXCEPT !.exercises = Append(@, sample[CardioRank(plan, d)])]
              ELSE plan[d]]
          : sample \in InjSeqs(Range(CardioPool), CardioUsed(plan))}
    ELSE {plan}

\* Mobility: up to three entries of the sample per day, in day order.  Of
\* the sample only the first 3 * len(fixed_plan) entries are used.
MobilityNeeded(plan) ==
    (4 * Len(AllExercises(plan))) \div 10 - MobilityTypeCount(AllExercises(plan))

MobilityUsed(plan) ==
    Min2(Min2(MobilityNeeded(plan), Len(MobilityPool)), 3 * Len(plan))

FixMobility(plan) ==
    IF MobilityNeeded(plan) > 0
    THEN {[d \in DOMAIN plan |->
              [plan[d] EXCEPT !.exercises =
                  @ \o SubSeq(sample, 3 * (d - 1) + 1, Min2(3 * d, Len(sample)))]]
          : sample \in InjSeqs(Range(MobilityPool), MobilityUsed(plan))}
    ELSE {plan}

\* Body Weight: the exercises whose equipment is not bodyweight are
\* replaced, in day and list order, by the entries of the sample.
BodyweightNeeded(plan) ==
    (7 * Len(AllExercises(plan))) \div 10 - BodyweightCount(AllExercises(plan))

\* how many exercises before position j of day d are not bodyweight
ReplaceIndex(plan, d, j) ==
    Cardinality(UNION {{<<x, y>> : y \in {k \in DOMAIN plan[x].exercises :
                                           /\ ~IsBodyweight(plan[x].exercises[k])
                                           /\ (x < d \/ k <= j)}}
                       : x \in 1..d})

BodyweightUsed(plan) ==
    Min2(Min2(BodyweightNeeded(plan), Len(BodyweightPool)),
         Len(AllExercises(plan)) - BodyweightCount(AllExercises(plan)))

FixBodyWeight(plan) ==
    IF BodyweightNeeded(plan) > 0
    THEN {[d \in DOMAIN plan |->
              [plan[d] EXCEPT !.exercises =
                  [j \in DOMAIN @ |->
                      IF ~IsBodyweight(@[j]) /\ ReplaceIndex(plan, d, j) <= Len(sample)
                      THEN sample[ReplaceIndex(plan, d, j)]
                      ELSE @[j]]]]
          : sample \in InjSeqs(Range(BodyweightPool), BodyweightUsed(plan))}
    ELSE {plan}

\* the goal-specific part of _fix_workout_plan, after the padding
FixForGoal(plan, goal) ==
    IF GoalHas(goal, "Body Building") THEN FixBodyBuilding(plan)
    ELSE IF GoalHas(goal, "Weight Loss") THEN FixWeightLoss(plan)
    ELSE IF GoalHas(goal, "Mobility") THEN FixMobility(plan)
    ELSE IF GoalHas(goal, "Body Weight") THEN FixBodyWeight(plan)
    ELSE {plan}

\* the number of entries of the goal's random sample that reach the plan
DrawSize(plan, goal) ==
    IF GoalHas(goal, "Body Building")
    THEN Max2(0, Min2(IsolationNeeded(plan), Len(IsolationPool)))
    ELSE IF GoalHas(goal, "Weight Loss") THEN Max2(0, CardioUsed(plan))
    ELSE IF GoalHas(goal, "Mobility") THEN Max2(0, MobilityUsed(plan))
    ELSE IF GoalHas(goal, "Body Weight") THEN Max2(0, BodyweightUsed(plan))
    ELSE 0

\* _fix_workout_plan(workout_plan, goal, experience_level): every plan it
\* can return
FixWorkoutPlan(plan, goal) ==
    UNION {FixForGoal(padded, goal) : padded \in PaddedPlans(plan, goal)}

(***************************************************************************)
(* Validation and repair of a generated plan, as create_workout_plan runs  *)
(* them: the plan is validated, and repaired when the validator rejects    *)
(* it.  The plans are what a planner can hand over: days of catalog        *)
(* exercises (positive ids).                                               *)
(***************************************************************************)
\* exercise lists a planner can fill a day with, by catalog position
DayPatterns ==
    { <<1, 2, 3, 4, 5, 6, 8, 7>>,
      <<10, 11, 13, 14, 12, 17, 9, 16>>,
      <<7, 15, 3, 10, 2, 4, 12, 9>> }

DayLens == {5, 6, 8}

\* the focus words a day key can carry after "Day n"
KeyWordSets == { {}, {"chest", "back"} }

MaxPlanDays == 2
MaxDraw == 2

PlanDays ==
    {[words |-> w, exercises |-> [i \in 1..l |-> Catalog[pat[i]]]] :
        w \in KeyWordSets, pat \in DayPatterns, l \in DayLens}

RepairPlans ==
    UNION {{[d \in 1..k |-> [key |-> [n |-> d, words |-> days[d].words],
                              exercises |-> days[d].exercises]]
              : days \in [1..k -> PlanDays]}
           : k \in 1..MaxPlanDays}

\* how many random.choice draws the padding of a day makes
PadDraws(day, goal) ==
    IF Len(day.exercises) < PadTo
    THEN LET cats == PadCategories(day.key.words, goal)
             count == PadTo - Len(day.exercises)
         IN Max2(0, PadFromCategories(cats, 1, count,
                                      Max2(1, count \div Len(cats))).remaining)
    ELSE 0

RECURSIVE PadDrawsOfPlan(_, _)
PadDrawsOfPlan(plan, goal) ==
    IF plan = <<>> THEN 0
    ELSE PadDraws(Head(plan), goal) + PadDrawsOfPlan(Tail(plan), goal)

MaxOf(S) == IF S = {} THEN 0 ELSE CHOOSE m \in S : \A x \in S : x <= m

\* the most random draws a repair of the plan can consume
RandomDraws(plan, goal) ==
    LET pad == PadDrawsOfPlan(plan, goal) IN
    IF pad > MaxDraw THEN pad
    ELSE pad + MaxOf({DrawSize(padded, goal) : padded \in PaddedPlans(plan, goal)})

RepairInit ==
    /\ rpc = "input"
    /\ rGoal \in Goals
    /\ rPlan \in RepairPlans
    /\ rValid = <<>>
    /\ rFixed = <<>>
    /\ FocusIdle /\ ProgIdle /\ StoreIdle /\ RecIdle /\ CreateIdle

\* is_valid, validation_message = self._validate_workout_plan(...)
RepairValidate ==
    /\ rpc = "input"
    /\ rValid' = ValidateWorkoutPlan(rPlan, rGoal)
    /\ rpc' = "validated"
    /\ UNCHANGED <<rGoal, rPlan, rFixed, otherThanRepair>>

\* if not is_valid: workout_plan = self._fix_workout_plan(...)
RepairFix ==
    /\ rpc = "validated"
    /\ ~rValid.valid
    /\ RandomDraws(rPlan, rGoal) <= MaxDraw
    /\ rFixed' \in FixWorkoutPlan(rPlan, rGoal)
    /\ rpc' = "fixed"
    /\ UNCHANGED <<rGoal, rPlan, rValid, otherThanRepair>>

RepairNext == RepairValidate \/ RepairFix

SpecRepair == RepairInit /\ [][RepairNext]_vars

\* how many planned-workout rows a week gets for the day: one for each
\* exercise that is not skipped for a negative id
C29_RowsPerWeek(day) ==
    Cardinality({i \in DOMAIN day.exercises : day.exercises[i].id >= 0})

\* C29: for every goal and every day, the plan _fix_workout_plan returns
\* gets at least as many planned-workout rows per week as the plan it was
\* given would get.
C29_RepairKeepsRows ==
    rpc = "fixed" =>
        \A d \in DOMAIN rPlan : C29_RowsPerWeek(rFixed[d]) >= C29_RowsPerWeek(rPlan[d])

\* C5: for every plan and goal, each day of the plan _fix_workout_plan
\* returns has at least as many exercises as that day had before the repair
\* (and the repaired plan has the same days).
C5_NeverFewerExercises ==
    rpc = "fixed" =>
        /\ DOMAIN rFixed = DOMAIN rPlan
        /\ \A d \in DOMAIN rPlan :
              /\ rFixed[d].key = rPlan[d].key
              /\ Len(rFixed[d].exercises) >= Len(rPlan[d].exercises)

\* a repair that padded one day and replaced exercises in another
C5_Witness ==
    /\ rpc = "fixed"
    /\ \E d \in DOMAIN rPlan : Len(rFixed[d].exercises) > Len(rPlan[d].exercises)
    /\ \E d \in DOMAIN rPlan :
          /\ Len(rFixed[d].exercises) = Len(rPlan[d].exercises)
          /\ rFixed[d].exercises # rPlan[d].exercises

\* C6: a Weight Loss plan rejected for too little cardio is repaired to a
\* plan on which the validator's cardio rule (cardio >= 1.5 x days) holds.
C6_CardioRuleHoldsAfterRepair ==
    (rpc = "fixed" /\ GoalHas(rGoal, "Weight Loss") /\ rValid.reason = "cardio")
        => 10 * ValidatorCardioCount(AllExercises(rFixed)) >= 15 * Len(rFixed)

\* the entries of the fixed fallback tables of the generator
FallbackTable(goal) ==
    Range(AllDefaults(goal)) \cup Range(IsolationPool) \cup Range(CardioPool)
        \cup Range(MobilityPool) \cup Range(BodyweightPool)

IsFallbackCopy(e, goal) ==
    e.id < 0 /\ \E t \in FallbackTable(goal) : WithId(t, e.id) = e

NoWeight == <<>>

\* last_workout.get('weight', 0)
WeightUsed(log) == IF log.weight = NoWeight THEN 0 ELSE log.weight[1]

\* workout_history[-1]
LastWorkout(h) == h[Len(h)]

CalculateSuggestedProgression_FirstLog(h) ==
    IF Len(h) = 0
    THEN [sets |-> 3, reps |-> "8-12", weight100 |-> 0, notes |-> "start"]
    ELSE LET last == h[1] IN
         IF last.sets_completed >= last.target_sets
         THEN [sets |-> last.sets_completed, reps |-> last.reps_completed,
               weight100 |-> WeightUsed(last) * 105, notes |-> "increase"]
         ELSE [sets |-> last.target_sets, reps |-> last.target_reps,
               weight100 |-> WeightUsed(last) * 100, notes |-> "maintain"]

\* notes: "start" is 'Start with a weight you can handle for all sets',
\* "increase" is 'Increase weight by 5% from last session', "maintain" is
\* 'Maintain current weight and focus on form'.
CalculateSuggestedProgression(h) ==
    IF Len(h) = 0
    THEN [sets |-> 3, reps |-> "8-12", weight100 |-> 0, notes |-> "start"]
    ELSE LET last_workout == LastWorkout(h)
             completed_all ==
                 last_workout.sets_completed >= last_workout.target_sets
             weight_used == WeightUsed(last_workout)
         IN IF completed_all
            THEN [sets |-> last_workout.sets_completed,
                  reps |-> last_workout.reps_completed,
                  weight100 |-> weight_used * 105,
                  notes |-> "increase"]
            ELSE [sets |-> last_workout.target_sets,
                  reps |-> last_workout.target_reps,
                  weight100 |-> weight_used * 100,
                  notes |-> "maintain"]

MaxHistory == 2

ProgLogs ==
    [sets_completed : {2, 3, 4}, target_sets : {3, 4},
     reps_completed : {8, 10}, target_reps : {10},
     weight : {NoWeight, <<0>>, <<100>>}]

RECURSIVE SeqsUpTo(_, _)
SeqsUpTo(S, n) ==
    IF n = 0 THEN {<<>>}
    ELSE LET shorter == SeqsUpTo(S, n - 1) IN
         shorter \cup {Append(q, x) : q \in {t \in shorter : Len(t) = n - 1}, x \in S}

ProgInit ==
    /\ ppc = "input"
    /\ history \in SeqsUpTo(ProgLogs, MaxHistory)
    /\ suggestion = <<>>
    /\ FocusIdle /\ RepairIdle /\ StoreIdle /\ RecIdle /\ CreateIdle

ProgSuggest ==
    /\ ppc = "input"
    /\ suggestion' = CalculateSuggestedProgression(history)
    /\ ppc' = "done"
    /\ UNCHANGED <<history, otherThanProg>>

ProgNext == ProgSuggest

SpecProg == ProgInit /\ [][ProgNext]_vars

\* C8: no history gives 3 sets of "8-12" at weight 0; otherwise the most
\* recent log alone decides: completed sets >= target sets (equality
\* included) gives the completed sets and reps at 1.05 times the weight used
\* with the increase note, anything else the target sets and reps at the
\* unchanged weight with the maintain note.
C8_Progression ==
    ppc = "done" =>
        IF history = <<>>
        THEN suggestion.sets = 3 /\ suggestion.reps = "8-12"
                 /\ suggestion.weight100 = 0
        ELSE LET recent == history[Len(history)]
                 used == IF recent.weight = <<>> THEN 0 ELSE recent.weight[1]
             IN IF recent.sets_completed >= recent.target_sets
                THEN /\ suggestion.sets = recent.sets_completed
                     /\ suggestion.reps = recent.reps_completed
                     /\ suggestion.weight100 = 105 * used
                     /\ suggestion.notes = "increase"
                ELSE /\ suggestion.sets = recent.target_sets
                     /\ suggestion.reps = recent.target_reps
                     /\ suggestion.weight100 = 100 * used
                     /\ suggestion.notes = "maintain"

\* C8 witness: completed sets equal to the target at 100 kg, after an older
\* log that missed its target: the suggestion is 105.0 kg.
C8_Witness ==
    /\ ppc = "done" /\ Len(history) = 2
    /\ history[2].sets_completed = 3 /\ history[2].target_sets = 3
    /\ history[2].weight = <<100>>
    /\ history[1].sets_completed < history[1].target_sets
    /\ suggestion.weight100 = 10500 /\ suggestion.notes = "increase"

(***************************************************************************)
(* WorkoutRecommender (src/Engine.py) over the store.                      *)
(*                                                                         *)
(* The store is the one the SQL of the engine names: fitness_plans with    *)
(* user_id, goal, created_date, is_active, plan_details; plan_workouts     *)
(* with plan_id, exercise_id, week, day; workout_logs with workout_id,     *)
(* user_id, date and the completed/target figures; exercises with the      *)
(* muscles of an exercise (body_part here).  Dates are day numbers; the    *)
(* clock of the process and the clock of date('now') are one clock.        *)
(*                                                                         *)
(* Every store query of a call can fail (raise); `fail` names the query    *)
(* that does, "none" when none does.                                       *)
(***************************************************************************)
Raised(error) == [type |-> "raised", error |-> error]

NoPlanId == 0

\* today.weekday() + 1
Weekday == (today % 7) + 1

\* the plans of the user, active or not
GetActivePlans_All(user_id) ==
    SelectSeq(plans, LAMBDA p : p.user_id = user_id)

\* self.db.get_active_plans(user_id)
GetActivePlans(user_id) ==
    SelectSeq(plans, LAMBDA p : p.user_id = user_id /\ p.is_active = 1)

\* SELECT created_date FROM fitness_plans WHERE id = ?
PlanStart(plan_id) == SelectSeq(plans, LAMBDA p : p.id = plan_id)

\* current_week = (days_since_start // 7) + 1
CurrentWeek(plan_id) == ((today - PlanStart(plan_id)[1].created_date) \div 7) + 1

\* the rows of the week and day, of whichever plan
PlanWorkoutsOn_AnyPlan(plan_id, week, day) ==
    SelectSeq(workouts, LAMBDA w : w.week = week /\ w.day = day)

\* SELECT * FROM plan_workouts WHERE plan_id = ? AND week = ? AND day = ?
PlanWorkoutsOn(plan_id, week, day) ==
    SelectSeq(workouts, LAMBDA w : w.plan_id = plan_id /\ w.week = week /\ w.day = day)

\* SELECT * FROM plan_workouts WHERE plan_id = ? AND week = ?
PlanWorkoutsIn(plan_id, week) ==
    SelectSeq(workouts, LAMBDA w : w.plan_id = plan_id /\ w.week = week)

\* SELECT COUNT(*) FROM workout_logs WHERE date >= ? AND user_id = ?
RecentWorkoutCount(user_id) ==
    Cardinality({i \in DOMAIN logs : logs[i].date >= today - 3 /\ logs[i].user_id = user_id})

\* a recovery check that already triggers at 5 logs
NeedsRecovery_AtFive(user_id) == RecentWorkoutCount(user_id) >= 5

\* _needs_recovery(user_id)
NeedsRecovery(user_id) == RecentWorkoutCount(user_id) > 5

\* the titles of recovery_options
RecoveryOptions == {"Active Recovery", "Mobility Focus", "Light Cardio"}

\* _generate_recovery_workout(user_id): random.choice(recovery_options)
GenerateRecoveryWorkout ==
    {[type |-> "recovery", workout |-> selected] : selected \in RecoveryOptions}

\* SELECT COUNT(*) FROM workout_logs WHERE workout_id = ? AND date = date('now')
LoggedToday(workout_id) ==
    \E i \in DOMAIN logs : logs[i].workout_id = workout_id /\ logs[i].date = today

\* SELECT * FROM exercises WHERE id = ?
ExerciseById(exercise_id) == SelectSeq(Catalog, LAMBDA e : e.id = exercise_id)

MuscleGroups == {"Chest", "Back", "Legs", "Shoulders", "Arms", "Core"}

\* e.muscle_group LIKE '%muscle%' (LIKE ignores case)
MuscleGroupLike(e, muscle) ==
    LET lower == CASE muscle = "Chest" -> "chest" [] muscle = "Back" -> "back"
                   [] muscle = "Legs" -> "legs" [] muscle = "Shoulders" -> "shoulders"
                   [] muscle = "Arms" -> "arms" [] muscle = "Core" -> "core"
                   [] muscle = "Calves" -> "calves" [] muscle = "Abs" -> "abs"
    IN lower \in Range(e.body_part)

\* the dates of the user's logs that join to an exercise of the muscle
MuscleLogDates(user_id, muscle) ==
    {logs[i].date : i \in {j \in DOMAIN logs :
        /\ logs[j].user_id = user_id
        /\ logs[j].workout_id \in DOMAIN workouts
        /\ LET e == ExerciseById(workouts[logs[j].workout_id].exercise_id)
           IN e # <<>> /\ MuscleGroupLike(e[1], muscle)}}

\* "Ready", or f"{status} ({days_since} days)" as the pair of its parts
Ready == [status |-> "Ready", days |-> <<>>]
StatusWithDays(status, days_since) == [status |-> status, days |-> <<days_since>>]

\* a classification that asks for recovery only on the day of the log
MuscleStatus_SameDayOnly(user_id, muscle, failed) ==
    IF failed \/ MuscleLogDates(user_id, muscle) = {} THEN Ready
    ELSE LET days_since == today - MaxOf(MuscleLogDates(user_id, muscle)) IN
         StatusWithDays(IF days_since < 1 THEN "Recovery needed"
                        ELSE IF days_since <= 2 THEN "Partial recovery"
                        ELSE "Ready", days_since)

\* the body of the loop of _get_muscle_recovery_status for one muscle
MuscleStatus(user_id, muscle, failed) ==
    IF failed \/ MuscleLogDates(user_id, muscle) = {} THEN Ready
    ELSE LET days_since == today - MaxOf(MuscleLogDates(user_id, muscle)) IN
         StatusWithDays(IF days_since <= 1 THEN "Recovery needed"
                        ELSE IF days_since <= 2 THEN "Partial recovery"
                        ELSE "Ready", days_since)

\* _get_muscle_recovery_status(user_id); `failing` are the muscles whose
\* lookup raises
GetMuscleRecoveryStatus(user_id, failing) ==
    [muscle \in MuscleGroups |-> MuscleStatus(user_id, muscle, muscle \in failing)]

\* the store queries of get_daily_recommendation that it makes outside any
\* try block, by the line of the call
UnguardedQueries ==
    {"active_plans", "plan_start", "today_workouts", "recovery_count",
     "alternative", "alternative_day", "completed_check", "bonus_goal", "exercise"}

\* the store queries made inside a try block (a muscle names the lookup of
\* _get_muscle_recovery_status for that muscle)
GuardedQueries ==
    {"default_details", "default_exercises", "recent_muscles", "muscle_exercises",
     "recent_workouts", "previous_logs"} \cup MuscleGroups

\* rows are sqlite3.Row objects (exercise_utils.py sets the row factory):
\* row['name'] and row[0] work, row.get(...) raises AttributeError
RowGetRaises == TRUE

\* the fallback list of the except branch of _generate_default_workout
SimpleDefault ==
    [type |-> "default", message |-> "simple",
     workouts |-> <<[title |-> "Push-ups", target_sets |-> 3, target_reps |-> 10],
                    [title |-> "Bodyweight Squats", target_sets |-> 3, target_reps |-> 15],
                    [title |-> "Plank", target_sets |-> 3, target_reps |-> 30]>>]

\* the plan rows ORDER BY created_date DESC LIMIT 1 can return for the user
LatestPlans(user_id) ==
    {p \in Range(plans) :
        /\ p.user_id = user_id
        /\ \A q \in Range(plans) : q.user_id = user_id => q.created_date <= p.created_date}

\* _generate_default_workout(user_id).  json is not imported in Engine.py:
\* json.loads raises NameError, which the except branch catches.
GenerateDefaultWorkout(user_id, fail) ==
    IF fail \in {"default_details", "default_exercises"} THEN {SimpleDefault}
    ELSE LET general ==
                 LET level == {e \in Range(Catalog) : e.level = "Beginner"} IN
                 {[type |-> "default", message |-> "general",
                   workouts |-> [i \in DOMAIN exercises |->
                       [title |-> exercises[i].title,
                        target_sets |-> 3,
                        target_reps |-> IF exercises[i].exercise_type = "Compound"
                                        THEN 10 ELSE 12,
                        exercise_type |-> exercises[i].exercise_type,
                        muscle_group |-> exercises[i].body_part]]]
                  : exercises \in InjSeqs(level, Min2(6, Cardinality(level)))}
         IN IF LatestPlans(user_id) = {} THEN general
            ELSE UNION {IF result.plan_details # "" THEN {SimpleDefault} ELSE general
                        : result \in LatestPlans(user_id)}

\* _get_recent_muscle_groups(user_id): the muscle_group values of the
\* exercises logged in the last 2 days; a value equals a group name when
\* the exercise has that one muscle
RecentMuscleGroups(user_id, fail) ==
    IF fail = "recent_muscles" THEN {}
    ELSE {g \in {"Arms", "Shoulders", "Calves", "Abs"} :
            \E i \in DOMAIN logs :
               /\ logs[i].date >= today - 2 /\ logs[i].user_id = user_id
               /\ logs[i].workout_id \in DOMAIN workouts
               /\ LET e == ExerciseById(workouts[logs[i].workout_id].exercise_id)
                  IN e # <<>> /\ Len(e[1].body_part) = 1 /\ MuscleGroupLike(e[1], g)}

\* _get_exercises_for_muscle_group(muscle_group, 4): formatting a row uses
\* ex.get, so a non-empty answer ends in the except branch
ExercisesForMuscleGroup(muscle_group, fail) ==
    IF fail = "muscle_exercises"
       \/ (RowGetRaises /\ \E e \in Range(Catalog) : MuscleGroupLike(e, muscle_group))
    THEN <<"Dumbbell Curls", "Push-ups", "Bodyweight Squats">>
    ELSE <<>>

\* _generate_bonus_workout(user_id, plan_id)
GenerateBonusWorkout(user_id, plan_id, fail) ==
    LET plan == PlanStart(plan_id)
        goal == IF plan # <<>> THEN plan[1].goal ELSE "General Fitness"
        recent == RecentMuscleGroups(user_id, fail)
        potential == <<"Arms", "Shoulders", "Calves", "Abs">>
        free == SelectSeq(potential, LAMBDA g : g \notin recent)
        target == IF free # <<>> THEN free[1] ELSE "Arms"
    IN IF GoalHas(goal, "Body Building")
       THEN [title |-> "Specialization", group |-> target,
             exercises |-> ExercisesForMuscleGroup(target, fail)]
       ELSE IF GoalHas(goal, "Weight Loss")
       THEN [title |-> "Calorie Burner", group |-> "",
             exercises |-> <<"HIIT Circuit", "Jump Rope", "Mountain Climbers">>]
       ELSE [title |-> "Core & Mobility", group |-> "",
             exercises |-> <<"Plank Variations", "Russian Twists", "Hip Mobility Flow">>]

\* lines 92-182: the workouts of today that are not logged today
ScheduledOrCompleted(user_id, plan_id, todays, fail) ==
    IF todays # <<>> /\ fail = "completed_check" THEN {Raised(fail)}
    ELSE LET remaining == SelectSeq(todays, LAMBDA w : ~LoggedToday(w.id)) IN
         IF remaining = <<>>
         THEN IF fail = "bonus_goal" THEN {Raised(fail)}
              ELSE {[type |-> "completed",
                     bonus_workout |-> GenerateBonusWorkout(user_id, plan_id, fail)]}
         ELSE IF fail = "exercise" THEN {Raised(fail)}
         ELSE IF RowGetRaises
                 /\ \E i \in DOMAIN remaining : ExerciseById(remaining[i].exercise_id) # <<>>
         THEN {Raised("AttributeError")}
         ELSE {[type |-> "scheduled", workouts |-> <<>>, adjustments |-> <<>>,
                muscle_recovery |->
                    GetMuscleRecoveryStatus(user_id, {m \in MuscleGroups : m = fail})]}

\* lines 27-90: the plan is known
RecommendForPlan(user_id, plan_id, fail) ==
    IF fail = "plan_start" THEN {Raised(fail)}
    ELSE IF PlanStart(plan_id) = <<>> THEN GenerateDefaultWorkout(user_id, fail)
    ELSE IF fail = "today_workouts" THEN {Raised(fail)}
    ELSE LET current_week == CurrentWeek(plan_id)
             todays == PlanWorkoutsOn(plan_id, current_week, Weekday)
         IN IF todays # <<>> THEN ScheduledOrCompleted(user_id, plan_id, todays, fail)
            ELSE IF fail = "recovery_count" THEN {Raised(fail)}
            ELSE IF NeedsRecovery(user_id) THEN GenerateRecoveryWorkout
            ELSE IF fail = "alternative" THEN {Raised(fail)}
            ELSE IF PlanWorkoutsIn(plan_id, current_week) = <<>>
            THEN ScheduledOrCompleted(user_id, plan_id, todays, fail)
            ELSE IF fail = "alternative_day" THEN {Raised(fail)}
            ELSE {[type |-> "alternative", day |-> alternative.day,
                   workouts |-> PlanWorkoutsOn(plan_id, current_week, alternative.day)]
                  : alternative \in Range(PlanWorkoutsIn(plan_id, current_week))}

\* get_daily_recommendation(user_id, plan_id=None): every result it can
\* give, a raised exception included
GetDailyRecommendation(user_id, plan_id, fail) ==
    IF plan_id = NoPlanId
    THEN IF fail = "active_plans" THEN {Raised(fail)}
         ELSE IF GetActivePlans(user_id) # <<>>
         THEN RecommendForPlan(user_id, GetActivePlans(user_id)[1].id, fail)
         ELSE GenerateDefaultWorkout(user_id, fail)
    ELSE RecommendForPlan(user_id, plan_id, fail)

(***************************************************************************)
(* The recommendation calls over a populated store.                        *)
(***************************************************************************)
Users == {1, 2}

PlanRow(id, user_id, goal, created_date, is_active, plan_details) ==
    [id |-> id, user_id |-> user_id, goal |-> goal, duration_weeks |-> 2,
     created_date |-> created_date, is_active |-> is_active,
     plan_details |-> plan_details]

WorkoutRow(id, plan_id, exercise_id, week, day) ==
    [id |-> id, plan_id |-> plan_id, exercise_id |-> exercise_id,
     week |-> week, day |-> day, target_sets |-> 3, target_reps |-> 10]

LogRow(workout_id, user_id, date) ==
    [workout_id |-> workout_id, user_id |-> user_id, date |-> date,
     sets_completed |-> 3, target_sets |-> 3,
     reps_completed |-> 10, target_reps |-> 10, weight |-> 50]

\* the plan tables of the stores explored
PlanTables ==
    { <<>>,
      <<PlanRow(1, 1, "Body Building", 0, 1, "json")>>,
      <<PlanRow(1, 1, "Weight Loss", 0, 0, "json")>>,
      <<PlanRow(1, 1, "Body Building", 0, 0, "json"),
        PlanRow(2, 1, "Weight Loss", 0, 1, "json")>>,
      <<PlanRow(1, 2, "General Fitness", 0, 1, "json")>>,
      <<PlanRow(1, 1, "General Fitness", 0, 0, "")>> }

\* the weekdays that carry workouts in the stores explored
PlannedDaySets == { {}, {3}, {2, 3} }

GridWeeks == 2
GridExercises == <<1, 3, 17>>

\* the rows a generated plan has: GridExercises on each day of `days`, in
\* each week, for each plan of the table
WorkoutGrid(table, days) ==
    LET cells == {<<p, w, d, x>> : p \in DOMAIN table, w \in 1..GridWeeks,
                                   d \in days, x \in DOMAIN GridExercises}
        Before(a, b) ==
            \/ a[1] < b[1]
            \/ a[1] = b[1] /\ a[2] < b[2]
            \/ a[1] = b[1] /\ a[2] = b[2] /\ a[3] < b[3]
            \/ a[1] = b[1] /\ a[2] = b[2] /\ a[3] = b[3] /\ a[4] < b[4]
        Position(c) == 1 + Cardinality({b \in cells : Before(b, c)})
    IN [i \in 1..Cardinality(cells) |->
          LET c == CHOOSE c \in cells : Position(c) = i
          IN WorkoutRow(i, c[1], GridExercises[c[4]], c[2], c[3])]

Dates == {2, 8, 9, 16}
MaxLogs == 6
MaxAge == 4

\* the log tables explored: a run of equal logs of user 1 for the first
\* exercise of a day, then at most two logs for the other exercises
LogTables(now) ==
    LET runs == {[i \in 1..k |-> LogRow(w, 1, now - age)] :
                    k \in 0..MaxLogs, w \in {1, 4}, age \in 0..MaxAge}
        tails == {<<>>}
                 \cup {<<LogRow(w, 1, now - age)>> : w \in {2, 5}, age \in {0, 2}}
                 \cup {<<LogRow(5, 1, now), LogRow(6, 1, now)>>,
                       <<LogRow(2, 1, now - 2), LogRow(3, 1, now - 3)>>}
    IN {run \o tail : run \in runs, tail \in tails}

RecInit ==
    /\ today \in Dates
    /\ plans \in PlanTables
    /\ \E days \in PlannedDaySets : workouts = WorkoutGrid(plans, days)
    /\ logs \in LogTables(today)
    /\ recpc = "input"
    /\ recCall = <<>>
    /\ recResult = <<>>
    /\ FocusIdle /\ ProgIdle /\ RepairIdle /\ CreateIdle

\* a call that also records what it recommended in workout_logs
RecDaily_Logging ==
    /\ recpc = "input"
    /\ \E user_id \in {1}, plan_id \in {NoPlanId, 1, 2} :
          /\ recCall' = [op |-> "daily", user_id |-> user_id,
                         plan_id |-> plan_id, fail |-> "none"]
          /\ recResult' \in GetDailyRecommendation(user_id, plan_id, "none")
    /\ recpc' = "done"
    /\ logs' = Append(logs, LogRow(1, 1, today))
    /\ UNCHANGED <<plans, workouts, today, otherThanRec>>

\* a call of get_daily_recommendation
RecDaily ==
    /\ recpc = "input"
    /\ \E user_id \in {1}, plan_id \in {NoPlanId, 1, 2},
          fail \in {"none"} \cup UnguardedQueries \cup GuardedQueries :
          /\ recCall' = [op |-> "daily", user_id |-> user_id,
                         plan_id |-> plan_id, fail |-> fail]
          /\ recResult' \in GetDailyRecommendation(user_id, plan_id, fail)
    /\ recpc' = "done"
    /\ UNCHANGED <<storeVars, otherThanRec>>

\* a call of _get_muscle_recovery_status
RecStatus ==
    /\ recpc = "input"
    /\ \E user_id \in Users,
          failing \in {{}, MuscleGroups} \cup {{m} : m \in MuscleGroups} :
          /\ recCall' = [op |-> "status", user_id |-> user_id,
                         plan_id |-> NoPlanId, fail |-> failing]
          /\ recResult' = GetMuscleRecoveryStatus(user_id, failing)
    /\ recpc' = "done"
    /\ UNCHANGED <<storeVars, otherThanRec>>

RecNext == RecDaily

SpecRec == RecInit /\ [][RecNext]_vars

StatusNext == RecStatus

SpecStatus == RecInit /\ [][StatusNext]_vars

\* C1: get_daily_recommendation never raises: whatever the store holds and
\* whichever single store query fails, the call returns a result whose type
\* is one of default, alternative, completed, scheduled, recovery.
C1_NeverRaises ==
    (recpc = "done" /\ recCall.op = "daily") =>
        recResult.type \in {"default", "alternative", "completed", "scheduled", "recovery"}

\* the dates on which the user logged an exercise of the muscle
C9_TrainedDates(user_id, muscle) ==
    {logs[i].date : i \in {j \in DOMAIN logs :
        /\ logs[j].user_id = user_id
        /\ \E w \in DOMAIN workouts :
              /\ workouts[w].id = logs[j].workout_id
              /\ \E x \in DOMAIN Catalog :
                    /\ Catalog[x].id = workouts[w].exercise_id
                    /\ MuscleGroupLike(Catalog[x], muscle)}}

C9_DaysSince(user_id, muscle, days) ==
    /\ (today - days) \in C9_TrainedDates(user_id, muscle)
    /\ \A date \in C9_TrainedDates(user_id, muscle) : date <= today - days

C10_Plan ==
    IF recCall.plan_id # 0 THEN {p \in Range(plans) : p.id = recCall.plan_id}
    ELSE {p \in Range(plans) :
            /\ p.user_id = recCall.user_id /\ p.is_active = 1
            /\ \A q \in Range(plans) :
                  (q.user_id = recCall.user_id /\ q.is_active = 1) => p.id <= q.id}

C10_NothingPlannedToday ==
    \E p \in C10_Plan :
        ~\E w \in Range(workouts) :
            /\ w.plan_id = p.id
            /\ w.week = ((today - p.created_date) \div 7) + 1
            /\ w.day = (today % 7) + 1

C10_LogsInTrailingDays ==
    Cardinality({i \in DOMAIN logs :
                    logs[i].user_id = recCall.user_id /\ logs[i].date >= today - 3})

C18_PlannedToday(p) ==
    {w \in Range(workouts) :
        /\ w.plan_id = p.id
        /\ w.week = ((today - p.created_date) \div 7) + 1
        /\ w.day = (today % 7) + 1}

\* C18: get_daily_recommendation answers with type completed only if the
\* plan has at least one planned workout for (current week, today's weekday)
\* and each of them has a log dated today; with nothing scheduled today the
\* answer is never completed, also when the current week is past the plan's
\* duration.
C18_CompletedOnlyWhenAllLogged ==
    (recpc = "done" /\ recCall.op = "daily" /\ recResult.type = "completed") =>
        \E p \in C10_Plan :
            /\ C18_PlannedToday(p) # {}
            /\ \A w \in C18_PlannedToday(p) :
                  \E i \in DOMAIN logs :
                      logs[i].workout_id = w.id /\ logs[i].date = today

\* the planned workouts of the plan in its current week
C22_PlannedThisWeek(p) ==
    {w \in Range(workouts) :
        w.plan_id = p.id /\ w.week = ((today - p.created_date) \div 7) + 1}

C23_LogsOf(user_id, exercise_id) ==
    {i \in DOMAIN logs :
        /\ logs[i].user_id = user_id
        /\ \E w \in Range(workouts) :
              w.id = logs[i].workout_id /\ w.exercise_id = exercise_id}

\* at least 2 logs of the exercise, none of the 3 most recent of them with a
\* weight below the most recent one's
C23_WeightNotIncreased(user_id, exercise_id) ==
    /\ Cardinality(C23_LogsOf(user_id, exercise_id)) >= 2
    /\ \A i, j \in C23_LogsOf(user_id, exercise_id) : logs[i].weight = logs[j].weight

\* a planned workout of today that has no log dated today and whose exercise
\* is in the catalog
C23_Remaining(p) ==
    {w \in C18_PlannedToday(p) :
        /\ ~\E i \in DOMAIN logs : logs[i].workout_id = w.id /\ logs[i].date = today
        /\ \E x \in DOMAIN Catalog : Catalog[x].id = w.exercise_id}

ExperienceLevels == {"Beginner", "Advanced"}

\* 'advanced' in exercise.get('level', '').lower()
LevelHas(e, kw) == kw = "advanced" /\ e.level = "Advanced"

\* set and rep counts where a cardio exercise takes the experience level's
\* sets and a weight-loss goal adds its 5 reps to cardio as well
CalculateSetsReps_CardioLikeOthers(e, experience_level, goal) ==
    LET sets == IF experience_level = "Beginner" THEN 3
                ELSE IF experience_level = "Intermediate" THEN 4 ELSE 5
        reps == IF TypeHas(e, "compound")
                THEN (IF GoalHas(goal, "Sports") THEN 6
                      ELSE IF GoalHas(goal, "Body Building") THEN 8 ELSE 10)
                ELSE IF TypeHas(e, "isolation")
                THEN (IF GoalHas(goal, "Body Building") THEN 12 ELSE 15)
                ELSE IF TypeHas(e, "cardio") THEN 20 ELSE 10
    IN [sets |-> IF TypeHas(e, "mobility") THEN 2 ELSE sets,
        reps |-> IF GoalHas(goal, "Weight Loss") THEN reps + 5 ELSE reps]

\* _calculate_sets_reps(exercise, experience_level, goal)
CalculateSetsReps(e, experience_level, goal) ==
    LET sets == IF experience_level = "Beginner" THEN 3
                ELSE IF experience_level = "Intermediate" THEN 4 ELSE 5
        typed ==
            IF TypeHas(e, "compound")
            THEN [sets |-> sets,
                  reps |-> IF GoalHas(goal, "Sports") \/ GoalHas(goal, "Athletic") THEN 6
                           ELSE IF GoalHas(goal, "Body Building") THEN 8 ELSE 10]
            ELSE IF TypeHas(e, "isolation")
            THEN [sets |-> sets, reps |-> IF GoalHas(goal, "Body Building") THEN 12 ELSE 15]
            ELSE IF TypeHas(e, "cardio") THEN [sets |-> 3, reps |-> 20]
            ELSE IF TypeHas(e, "mobility") THEN [sets |-> 2, reps |-> 10]
            ELSE [sets |-> sets, reps |-> 10]
        more == IF GoalHas(goal, "Weight Loss") /\ ~TypeHas(e, "cardio")
                THEN typed.reps + 5 ELSE typed.reps
        reps == IF GoalHas(goal, "Body Weight") /\ EquipmentHas(e, "bodyweight")
                   /\ LevelHas(e, "advanced")
                THEN Max2(5, more - 5) ELSE more
    IN [sets |-> typed.sets, reps |-> reps]

PlannedRow(exercise_id, week, day, sets, reps) ==
    [exercise_id |-> exercise_id, week |-> week, day |-> day,
     target_sets |-> sets, target_reps |-> reps]

\* the add_plan_workout call for one exercise
RowFor(e, week, day_number, sets_reps) ==
    PlannedRow(e.id, week, day_number, sets_reps.sets, sets_reps.reps)

\* the rows of one day and week, were placeholders written as well
DayRows_NoSkip(day_number, week, exercises, experience_level, goal) ==
    [i \in DOMAIN exercises |->
        RowFor(exercises[i], week, day_number,
               CalculateSetsReps(exercises[i], experience_level, goal))]

\* the rows of one day and week over the exercises kept
RowsOfKept(day_number, week, kept, experience_level, goal) ==
    [i \in DOMAIN kept |->
        RowFor(kept[i], week, day_number,
               CalculateSetsReps(kept[i], experience_level, goal))]

\* the inner loop of _add_workouts_to_database: the rows of one day and
\* week; exercises with a negative id are skipped
DayRows(day_number, week, exercises, experience_level, goal) ==
    RowsOfKept(day_number, week, SelectSeq(exercises, LAMBDA e : ~(e.id < 0)),
               experience_level, goal)

\* _add_workouts_to_database: the rows it sets out to write, in its order
\* (days in sorted key order, then weeks, then exercises)
MainRows(plan, duration_weeks, experience_level, goal) ==
    Flatten([d \in DOMAIN plan |->
        Flatten([w \in 1..duration_weeks |->
            DayRows(d, w, plan[d].exercises, experience_level, goal)])])

\* basic_exercises of _add_basic_exercises: name and body_part
BasicExercises(focus) ==
    CASE focus = "Upper Body" ->
           << <<"Push-ups", <<"chest">> >>, <<"Pull-ups", <<"back">> >>,
              <<"Dips", <<"chest", "triceps">> >>, <<"Overhead Press", <<"shoulders">> >> >>
      [] focus = "Lower Body" ->
           << <<"Squats", <<"legs">> >>, <<"Lunges", <<"legs">> >>,
              <<"Glute Bridges", <<"glutes">> >>, <<"Calf Raises", <<"calves">> >> >>
      [] focus = "Core" ->
           << <<"Plank", <<"core">> >>, <<"Crunches", <<"core">> >>,
              <<"Russian Twists", <<"core">> >>, <<"Leg Raises", <<"core">> >> >>
      [] focus = "Cardio" ->
           << <<"Jumping Jacks", <<"full body">> >>, <<"Mountain Climbers", <<"full body">> >>,
              <<"Burpees", <<"full body">> >>, <<"High Knees", <<"full body">> >> >>
      [] OTHER -> <<>>

FocusRotation ==
    <<"Upper Body", "Lower Body", "Core", "Upper Body", "Lower Body", "Cardio", "Rest">>

\* title LIKE '%name%', for the catalog titles
TitleLike(e, name) ==
    CASE name = "Push-ups" -> e.title \in {"Push-ups", "Pike Push-ups"}
      [] name = "Pull-ups" -> e.title = "Pull-ups"
      [] name = "Overhead Press" -> e.title = "Overhead Press"
      [] name = "Squats" -> e.title = "Bodyweight Squats"
      [] name = "Plank" -> e.title = "Plank"
      [] OTHER -> FALSE

\* body_part LIKE '%parts%': the parts occur next to each other
BodyPartLike(e, parts) ==
    \E o \in DOMAIN e.body_part :
        /\ o + Len(parts) - 1 <= Len(e.body_part)
        /\ SubSeq(e.body_part, o, o + Len(parts) - 1) = parts

\* SELECT id FROM exercises WHERE title LIKE ? AND body_part LIKE ? LIMIT 1
\* (the first match of the table scan)
FindBasicExercise(basic) ==
    SelectSeq(Catalog, LAMBDA e : TitleLike(e, basic[1]) /\ BodyPartLike(e, basic[2]))

\* the rows _add_basic_exercises sets out to write for one week and day
BasicDayRows(week, day, experience_level) ==
    LET focus == FocusRotation[((day - 1) % Len(FocusRotation)) + 1]
        found == SelectSeq(BasicExercises(focus), LAMBDA b : FindBasicExercise(b) # <<>>)
        sets == IF experience_level = "Beginner" THEN 3
                ELSE IF experience_level = "Intermediate" THEN 4 ELSE 5
        reps == IF experience_level = "Beginner" THEN 10
                ELSE IF experience_level = "Intermediate" THEN 8 ELSE 6
    IN [i \in DOMAIN found |->
          PlannedRow(FindBasicExercise(found[i])[1].id, week, day, sets, reps)]

\* _add_basic_exercises: weeks, then days, then exercises
BasicRows(workouts_per_week, duration_weeks, experience_level) ==
    Flatten([w \in 1..duration_weeks |->
        Flatten([d \in 1..workouts_per_week |-> BasicDayRows(w, d, experience_level)])])

\* does the i-th store write of the call raise
Fails(fail, i) ==
    CASE fail.kind = "none" -> FALSE
      [] fail.kind = "once" -> i = fail.at
      [] fail.kind = "from" -> i >= fail.at

\* self.db.create_fitness_plan(...): the row a successful insert adds
InsertedPlan(id, call) ==
    [id |-> id, user_id |-> call.user_id, goal |-> call.plan_goal,
     duration_weeks |-> call.duration_weeks, created_date |-> today,
     is_active |-> 1, plan_details |-> "json"]

\* self.db.add_plan_workout(...): the rows successful inserts add, the
\* first of them with id `first`
InsertedWorkouts(rows, plan_id, first) ==
    [i \in DOMAIN rows |->
        [id |-> first + i - 1, plan_id |-> plan_id, exercise_id |-> rows[i].exercise_id,
         week |-> rows[i].week, day |-> rows[i].day,
         target_sets |-> rows[i].target_sets, target_reps |-> rows[i].target_reps]]

\* the elements of q at the positions in S, in order
RECURSIVE AtPositions(_, _, _)
AtPositions(q, S, i) ==
    IF i > Len(q) THEN <<>>
    ELSE (IF i \in S THEN <<q[i]>> ELSE <<>>) \o AtPositions(q, S, i + 1)

MaxWeeks == 2
\* a plan long enough for the weeks past the third to matter
LongPlanWeeks == 10
PlanWeeks == (1..MaxWeeks) \cup {LongPlanWeeks}
MaxFailAt == 4
MaxCreateDraw == 2

\* which store writes of a call raise: none, the k-th only, or all from the k-th on
WriteFailures ==
    {[kind |-> "none", at |-> 0]}
      \cup {[kind |-> k, at |-> i] : k \in {"once", "from"}, i \in 1..MaxFailAt}

\* the write failures explored for a plan of that many weeks: every failing
\* write is among the first MaxFailAt, which are writes of week 1 whatever
\* the plan's length, so the long plan is explored with no write failing
WriteFailuresOf(weeks) ==
    IF weeks > MaxWeeks THEN {[kind |-> "none", at |-> 0]} ELSE WriteFailures

SelectorDayLens == {0, 6, 8}

\* the exercise lists the planner can return for a day: catalog exercises,
\* fewer than asked for, or none, where the catalog has run out
SelectorDays ==
    {[i \in 1..l |-> Catalog[pat[i]]] : pat \in DayPatterns, l \in SelectorDayLens}

\* what self.planner.create_workout_plan returns for n days: under the keys
\* Day 1 .. Day n, lists of catalog exercises
SelectorPlans(n) ==
    {[d \in 1..n |-> [key |-> [n |-> d, words |-> {}], exercises |-> days[d]]] :
        days \in [1..n -> SelectorDays]}

\* the calls explored: the random draws of the repair, over the days of the
\* plan, stay within MaxCreateDraw
WithinDrawBudget(plan, goal) ==
    RandomDraws(plan, goal) * Len(plan) <= MaxCreateDraw

\* the plan that reaches the store: the planner's if it validates, else a
\* repaired one
PlansToStore(plan, goal) ==
    IF ValidateWorkoutPlan(plan, goal).valid THEN {plan} ELSE FixWorkoutPlan(plan, goal)

\* the pipeline up to the store, were the repaired plan validated again and
\* a second rejection raised
Pipeline_Revalidate(planner, goal) ==
    IF planner = <<>> THEN {<<>>}
    ELSE {IF ValidateWorkoutPlan(f, goal).valid THEN <<f>> ELSE <<>> :
            f \in PlansToStore(planner[1], goal)}

\* lines 45-75 of create_workout_plan: what the pipeline hands to the store,
\* <<plan>>, or <<>> when the planner raised
Pipeline(planner, goal) ==
    IF planner = <<>> THEN {<<>>}
    ELSE {<<f>> : f \in PlansToStore(planner[1], goal)}

\* the first position i of rows whose write, number base + i, raises; 0 if none
FirstFailing(fail, base, n) ==
    IF \E i \in 1..n : Fails(fail, base + i)
    THEN CHOOSE i \in 1..n : Fails(fail, base + i) /\ \A j \in 1..(i - 1) : ~Fails(fail, base + j)
    ELSE 0

\* the try block from create_fitness_plan on: write 1 is the plan row, the
\* rows follow until one raises
MainWritten(created, firstBad, rows) ==
    [created |-> created,
     ok |-> created /\ firstBad = 0,
     rows |-> rows,
     written |-> IF ~created THEN <<>>
                 ELSE IF firstBad = 0 THEN rows ELSE SubSeq(rows, 1, firstBad - 1),
     used |-> IF ~created THEN 1
              ELSE IF firstBad = 0 THEN 1 + Len(rows) ELSE 1 + firstBad]

NotReached == [created |-> FALSE, ok |-> FALSE, rows |-> <<>>, written |-> <<>>, used |-> 0]

MainAttempt(fail, piped, rows) ==
    IF ~piped THEN NotReached
    ELSE IF Fails(fail, 1) THEN MainWritten(FALSE, 0, rows)
    ELSE MainWritten(TRUE, FirstFailing(fail, 1, Len(rows)), rows)

\* the except block: create_fitness_plan again, then the basic exercises,
\* each in a try of its own
BasicWritten(fail, rows, base) ==
    [created |-> TRUE, rows |-> rows,
     written |-> AtPositions(rows, {i \in DOMAIN rows : ~Fails(fail, base + i)}, 1)]

BasicAttempt(call, m) ==
    IF m.ok \/ Fails(call.fail, m.used + 1)
    THEN [created |-> FALSE, rows |-> <<>>, written |-> <<>>]
    ELSE BasicWritten(call.fail,
                      BasicRows(call.workouts_per_week, call.duration_weeks,
                                call.experience_level),
                      m.used + 1)

\* what create_workout_plan returns
CreateResult(m, b, mainId, basicId) ==
    IF m.ok
    THEN [success |-> TRUE, plan_id |-> mainId, error |-> FALSE, path |-> "main"]
    ELSE IF b.created
    THEN [success |-> FALSE, plan_id |-> basicId, error |-> FALSE, path |-> "basic"]
    ELSE [success |-> FALSE, plan_id |-> NoPlanId, error |-> TRUE, path |-> "failed"]

\* the store after the two attempts, the rows each plan was to get, and the
\* result
StoreAfter(call, m, b, mainId, basicId) ==
    [plans |-> plans
                 \o (IF m.created THEN <<InsertedPlan(mainId, call)>> ELSE <<>>)
                 \o (IF b.created THEN <<InsertedPlan(basicId, call)>> ELSE <<>>),
     workouts |-> workouts
                    \o InsertedWorkouts(m.written, mainId, Len(workouts) + 1)
                    \o InsertedWorkouts(b.written, basicId,
                                        Len(workouts) + Len(m.written) + 1),
     grid |-> [id \in (IF m.created THEN {mainId} ELSE {})
                        \cup (IF b.created THEN {basicId} ELSE {}) |->
                 IF m.created /\ id = mainId THEN m.rows ELSE b.rows],
     result |-> CreateResult(m, b, mainId, basicId)]

AfterMain(call, m) ==
    StoreAfter(call, m, BasicAttempt(call, m), Len(plans) + 1,
               Len(plans) + (IF m.created THEN 2 ELSE 1))

\* create_workout_plan from the point where the pipeline has produced `main`
\* (<<plan>>), or has raised (<<>>): the store and the result it leaves
CreateOutcome(call, main) ==
    AfterMain(call,
              MainAttempt(call.fail, main # <<>>,
                          IF main = <<>> THEN <<>>
                          ELSE MainRows(main[1], call.duration_weeks,
                                        call.experience_level, call.plan_goal)))

\* how many exercises of the plan handed to the store are placeholders
Placeholders(main) ==
    IF main = <<>> THEN 0
    ELSE Len(SelectSeq(AllExercises(main[1]), LAMBDA e : e.id < 0))

\* the text the returned tuple carries: str(fallback_error) when the fallback
\* could not create its plan row, no text otherwise (the second component is
\* then the plan id)
ResultMessage(result) == IF result.error THEN "store error" ELSE ""

\* print(f"Plan validation warning: {validation_message}"): the rejection
\* reason written to standard output, "" when nothing is printed
ValidationWarning(planner, goal) ==
    IF planner # <<>> /\ ~ValidateWorkoutPlan(planner[1], goal).valid
    THEN ValidateWorkoutPlan(planner[1], goal).reason
    ELSE ""

CreateInit ==
    /\ cpc = "input"
    /\ cCall = <<>>
    /\ cResult = <<>>
    /\ cGrid = <<>>
    /\ StoreIdle
    /\ FocusIdle /\ ProgIdle /\ RepairIdle /\ RecIdle

\* WorkoutGenerator.create_workout_plan(user_id, ..., plan_goal, duration_weeks,
\* workouts_per_week, ..., experience_level)
CreateWorkoutPlan ==
    /\ cpc = "input"
    /\ \E goal \in Goals, n \in 1..MaxPlanDays :
         \E planner \in {<<>>} \cup {<<plan>> : plan \in SelectorPlans(n)} :
           /\ planner # <<>> => WithinDrawBudget(planner[1], goal)
           /\ \E main \in Pipeline(planner, goal) :
                \E weeks \in PlanWeeks, level \in ExperienceLevels :
                 \E fail \in WriteFailuresOf(weeks) :
                  \E call \in {[user_id |-> 1, plan_goal |-> goal,
                                 duration_weeks |-> weeks, workouts_per_week |-> n,
                                 experience_level |-> level, fail |-> fail,
                                 planner |-> planner,
                                 planned |-> planner # <<>>,
                                 valid |-> planner # <<>>
                                   /\ ValidateWorkoutPlan(planner[1], goal).valid]} :
                    \E out \in {CreateOutcome(call, main)} :
                      /\ cCall' = call
                      /\ cResult' = [success |-> out.result.success,
                                      plan_id |-> out.result.plan_id,
                                      error |-> out.result.error,
                                      path |-> out.result.path,
                                      skipped |-> Placeholders(main),
                                      message |-> ResultMessage(out.result),
                                      printed |-> ValidationWarning(planner, goal)]
                      /\ cGrid' = out.grid
                      /\ plans' = out.plans
                      /\ workouts' = out.workouts
    /\ cpc' = "done"
    /\ UNCHANGED <<logs, today, otherThanCreate>>

CreateNext == CreateWorkoutPlan

SpecCreate == CreateInit /\ [][CreateNext]_vars

PlanIdsStored == {plans[i].id : i \in DOMAIN plans}

\* the rows the store holds for a plan, in the form they were asked for
StoredRowsOf(plan_id) ==
    LET mine == SelectSeq(workouts, LAMBDA w : w.plan_id = plan_id) IN
    [i \in DOMAIN mine |->
        PlannedRow(mine[i].exercise_id, mine[i].week, mine[i].day,
                   mine[i].target_sets, mine[i].target_reps)]

CatalogIds == {Catalog[i].id : i \in DOMAIN Catalog}

\* C2: after create_workout_plan returns, every plan row in the store has
\* all of the planned workouts that were to be written for it, none missing,
\* also when a store write failed part-way through the call.
C2_NoPartialPlan ==
    cpc = "done" =>
        \A p \in PlanIdsStored : StoredRowsOf(p) = cGrid[p]

\* C3: every planned-workout row that create_workout_plan wrote, on the main
\* path and on the basic fallback path, names an exercise of the catalog;
\* placeholders with negative ids are never written.
C3_OnlyCatalogExercises ==
    cpc = "done" =>
        \A i \in DOMAIN workouts : workouts[i].exercise_id \in CatalogIds

\* a repaired plan holding placeholders reached the store on the main path
C3_Witness ==
    /\ cpc = "done"
    /\ cResult.path = "main"
    /\ ~cCall.valid
    /\ cResult.skipped > 0
    /\ workouts # <<>>
    /\ Len(workouts) = Len(cGrid[cResult.plan_id])

\* the basic path wrote the rows of the plan it returns
C3_WitnessBasic ==
    /\ cpc = "done"
    /\ cResult.path = "basic"
    /\ workouts # <<>>
    /\ \A i \in DOMAIN workouts : workouts[i].plan_id = cResult.plan_id

\* C11: create_workout_plan returns a failure result exactly when even the
\* basic fallback plan could not be persisted; in every other case, also when
\* the main pipeline failed and the fallback plan was persisted, it returns
\* success together with the id of the persisted plan.
C11_FailureOnlyWithoutPlan ==
    cpc = "done" =>
        /\ ~cResult.success <=> cResult.path = "failed"
        /\ cResult.success => \E i \in DOMAIN plans : plans[i].id = cResult.plan_id

\* the call's planner returned a plan the validator rejects, and no store
\* write of the call raised
RejectedAndStored ==
    /\ cpc = "done"
    /\ cCall.planned
    /\ ~cCall.valid
    /\ cCall.fail.kind = "none"

\* the rows create_workout_plan writes for plan f
RowsOfCall(f) ==
    MainRows(f, cCall.duration_weeks, cCall.experience_level, cCall.plan_goal)

\* C12: a validation failure is never fatal and never retried: when the
\* validator rejects the planner's plan and every store write succeeds, the
\* call stores one plan row and the rows of a plan repaired once, and returns
\* success with the id of that new plan.
C12_RejectedPlanRepairedOnce ==
    RejectedAndStored =>
        /\ cResult.success
        /\ Len(plans) = 1
        /\ cResult.plan_id = plans[1].id
        /\ StoredRowsOf(cResult.plan_id) = cGrid[cResult.plan_id]
        /\ \E f \in FixWorkoutPlan(cCall.planner[1], cCall.plan_goal) :
              /\ cGrid[cResult.plan_id] = RowsOfCall(f)
              /\ cResult.skipped = Placeholders(<<f>>)

\* a repaired plan that the validator would still reject was stored
C12_Witness ==
    /\ RejectedAndStored
    /\ cResult.success
    /\ workouts # <<>>
    /\ \E f \in FixWorkoutPlan(cCall.planner[1], cCall.plan_goal) :
          /\ ~ValidateWorkoutPlan(f, cCall.plan_goal).valid
          /\ cGrid[cResult.plan_id] = RowsOfCall(f)
          /\ cResult.skipped = Placeholders(<<f>>)

\* C13: when the validator rejected the generated plan and a plan was created
\* all the same, the result returned to the caller carries the validator's
\* failure reason as a warning next to the plan id.
C13_WarningReturned ==
    (cpc = "done" /\ cCall.planned /\ ~cCall.valid /\ ~cResult.error) =>
        cResult.message = ValidateWorkoutPlan(cCall.planner[1], cCall.plan_goal).reason

\* the store holds a row of the plan for the week and day
HasRowFor(plan_id, week, day) ==
    \E i \in DOMAIN workouts :
        /\ workouts[i].plan_id = plan_id
        /\ workouts[i].week = week
        /\ workouts[i].day = day

\* C14: after create_workout_plan returns success for duration_weeks = W and
\* workouts_per_week = N, the store holds at least one planned-workout row of
\* the new plan for every week 1..W and every day 1..N, also when the plan
\* was repaired.
C14_FullGrid ==
    (cpc = "done" /\ cResult.success) =>
        \A w \in 1..cCall.duration_weeks, d \in 1..cCall.workouts_per_week :
            HasRowFor(cResult.plan_id, w, d)

\* how many rows of the plan for the week and day name the exercise
RowCount(plan_id, week, day, exercise_id) ==
    Cardinality({i \in DOMAIN workouts :
                    /\ workouts[i].plan_id = plan_id
                    /\ workouts[i].week = week
                    /\ workouts[i].day = day
                    /\ workouts[i].exercise_id = exercise_id})

\* C15: for every plan written by create_workout_plan and every day d, the
\* collection of exercise ids of the rows for (plan, week w, day d) is the
\* same for every week w of the plan.
C15_SameExercisesEveryWeek ==
    cpc = "done" =>
        \A i \in DOMAIN plans :
          \A d \in 1..cCall.workouts_per_week, w \in 1..plans[i].duration_weeks :
            \A e \in CatalogIds :
                RowCount(plans[i].id, w, d, e) = RowCount(plans[i].id, 1, d, e)

\* C28: a call of create_workout_plan adds at most one plan row to the
\* store (empty before the call), whichever of its steps fails.
C28_AtMostOnePlanRow ==
    cpc = "done" => Len(plans) <= 1

(***************************************************************************)
(* The store under a sequence of calls: create_workout_plan, log_workout,  *)
(* update_plan_goal, make_plan_inactive and get_daily_recommendation, with *)
(* days passing in between.  cCall and cResult hold the last call and what *)
(* it returned.                                                            *)
(***************************************************************************)
MaxStorePlans == 2
MaxStoreLogs == 2
MaxStoreDays == 1

\* the goal of the plans created, and the goals a plan is changed to
StoreGoals == {"Body Building"}
NewGoals == {"Weight Loss"}

\* the planned workouts that get logged
LoggedWorkoutIds == {1, 2}

\* the planner's answers in these calls: it raises, or returns one day of
\* eight catalog exercises
StorePlanners ==
    {<<>>, << <<[key |-> [n |-> 1, words |-> {}],
                 exercises |-> [i \in 1..8 |-> Catalog[<<1, 2, 3, 4, 5, 6, 8, 7>>[i]]]]>> >>}

StoreWriteFailures == {[kind |-> "none", at |-> 0], [kind |-> "once", at |-> 3]}

\* the user_id of a log row that was written without one
NoUser == 0

\* UPDATE fitness_plans SET goal = ? WHERE id = ?
UpdatePlanGoal(table, plan_id, new_goal) ==
    [i \in DOMAIN table |->
        IF table[i].id = plan_id THEN [table[i] EXCEPT !.goal = new_goal] ELSE table[i]]

\* the table, were the plan removed from it
MakePlanInactive_Delete(table, plan_id) ==
    SelectSeq(table, LAMBDA row : row.id # plan_id)

\* UPDATE fitness_plans SET is_active = 0 WHERE id = ?
MakePlanInactive(table, plan_id) ==
    [i \in DOMAIN table |->
        IF table[i].id = plan_id THEN [table[i] EXCEPT !.is_active = 0] ELSE table[i]]

\* the `date` of a log row that was written without one.  SQLite's NULL
\* satisfies none of the engine's comparisons (date = today, date >= today - k)
\* and sorts below every date, as does a day before every day explored.
NoDate == -1000

\* a log row that was written with a date
LogWorkout_Dated(table, workout_id, sets, reps, weight_kg) ==
    Append(table, [workout_id |-> workout_id, user_id |-> NoUser, date |-> today,
                   completed_at |-> today, sets_completed |-> sets, target_sets |-> 3,
                   reps_completed |-> reps, target_reps |-> 10, weight |-> weight_kg])

\* INSERT INTO workout_logs (workout_id, completed_at, sets_completed,
\* reps_completed, weight_kg) VALUES (?, datetime.now(), ?, ?, ?): the row
\* carries the time of the call in completed_at, and no user and no date
LogWorkout(table, workout_id, sets, reps, weight_kg) ==
    Append(table, [workout_id |-> workout_id, user_id |-> NoUser, date |-> NoDate,
                   completed_at |-> today, sets_completed |-> sets, target_sets |-> 3,
                   reps_completed |-> reps, target_reps |-> 10, weight |-> weight_kg])

StoreInit ==
    /\ StoreIdle
    /\ cpc = "serving"
    /\ cCall = <<>>
    /\ cResult = <<>>
    /\ cGrid = <<>>
    /\ FocusIdle /\ ProgIdle /\ RepairIdle /\ RecIdle

StoreCreatePlan ==
    /\ cpc = "serving"
    /\ Len(plans) < MaxStorePlans
    /\ \E goal \in StoreGoals, planner \in StorePlanners, fail \in StoreWriteFailures :
         /\ planner # <<>> => WithinDrawBudget(planner[1], goal)
         /\ \E main \in Pipeline(planner, goal) :
              \E call \in {[user_id |-> 1, plan_goal |-> goal, duration_weeks |-> 1,
                             workouts_per_week |-> 1, experience_level |-> "Beginner",
                             fail |-> fail]} :
                \E out \in {CreateOutcome(call, main)} :
                  /\ cCall' = [op |-> "create_workout_plan"]
                  /\ cResult' = [type |-> out.result.path]
                  /\ plans' = out.plans
                  /\ workouts' = out.workouts
    /\ UNCHANGED <<cpc, cGrid, logs, today, otherThanCreate>>

StoreLogWorkout ==
    /\ cpc = "serving"
    /\ Len(logs) < MaxStoreLogs
    /\ \E workout_id \in LoggedWorkoutIds :
         /\ cCall' = [op |-> "log_workout"]
         /\ logs' = LogWorkout(logs, workout_id, 3, 10, 50)
    /\ cResult' = <<>>
    /\ UNCHANGED <<cpc, cGrid, plans, workouts, today, otherThanCreate>>

StoreUpdatePlanGoal ==
    /\ cpc = "serving"
    /\ \E plan_id \in 1..(Len(plans) + 1), new_goal \in NewGoals :
         /\ cCall' = [op |-> "update_plan_goal"]
         /\ plans' = UpdatePlanGoal(plans, plan_id, new_goal)
    /\ cResult' = <<>>
    /\ UNCHANGED <<cpc, cGrid, workouts, logs, today, otherThanCreate>>

StoreMakePlanInactive ==
    /\ cpc = "serving"
    /\ \E plan_id \in 1..(Len(plans) + 1) :
         /\ cCall' = [op |-> "make_plan_inactive"]
         /\ plans' = MakePlanInactive(plans, plan_id)
    /\ cResult' = <<>>
    /\ UNCHANGED <<cpc, cGrid, workouts, logs, today, otherThanCreate>>

StoreRecommend ==
    /\ cpc = "serving"
    /\ \E plan_id \in {NoPlanId, 1} :
         \E r \in GetDailyRecommendation(1, plan_id, "none") :
           /\ cCall' = [op |-> "get_daily_recommendation", plan_id |-> plan_id]
           /\ cResult' = [type |-> r.type,
                           plan_ids |-> IF r.type = "alternative"
                                        THEN {w.plan_id : w \in Range(r.workouts)}
                                        ELSE {}]
    /\ UNCHANGED <<cpc, cGrid, storeVars, otherThanCreate>>

\* a day passes
StoreNextDay ==
    /\ cpc = "serving"
    /\ today < MaxStoreDays
    /\ today' = today + 1
    /\ cCall' = [op |-> "next day"]
    /\ cResult' = <<>>
    /\ UNCHANGED <<cpc, cGrid, plans, workouts, logs, otherThanCreate>>

StoreNext ==
    \/ StoreCreatePlan
    \/ StoreLogWorkout
    \/ StoreUpdatePlanGoal
    \/ StoreMakePlanInactive
    \/ StoreRecommend
    \/ StoreNextDay

SpecStore == StoreInit /\ [][StoreNext]_vars

\* table `old` is the beginning of table `new`
IsPrefix(old, new) ==
    /\ Len(old) <= Len(new)
    /\ SubSeq(new, 1, Len(old)) = old

\* the last call named change permits the step from plan row `old` to `new`
PlanChangeAllowed(old, new, op) ==
    \/ new = old
    \/ /\ op = "update_plan_goal"
       /\ new = [old EXCEPT !.goal = new.goal]
    \/ /\ op = "make_plan_inactive"
       /\ new = [old EXCEPT !.is_active = new.is_active]

\* C16: across any sequence of create_workout_plan, log_workout,
\* update_plan_goal, make_plan_inactive and get_daily_recommendation calls no
\* plan, planned-workout or log row is ever deleted, planned-workout and log
\* rows are never modified, and a plan row changes only in its goal
\* (update_plan_goal) or its active flag (make_plan_inactive).
C16_RowsKept ==
    [][/\ IsPrefix(workouts, workouts')
       /\ IsPrefix(logs, logs')
       /\ Len(plans) <= Len(plans')
       /\ \A i \in DOMAIN plans : PlanChangeAllowed(plans[i], plans'[i], cCall'.op)]_vars

\* after creations, logs and a goal change, a plan has just been made inactive
C16_Witness ==
    /\ cpc = "serving"
    /\ cCall # <<>>
    /\ cCall.op = "make_plan_inactive"
    /\ Len(plans) = 3
    /\ logs # <<>>
    /\ \E i \in DOMAIN plans : plans[i].is_active = 0 /\ plans[i].goal \in NewGoals
    /\ \E i \in DOMAIN plans : plans[i].is_active = 1

\* the set count that the base count gives in the week: the base in weeks
\* 1..3, and in a later week base * (1.0 - 0.02 * week), rounded either way
\* and at least 1
C19_ScaledSets(sets, base, week) ==
    IF week <= 3 THEN sets = base
    ELSE /\ sets >= 1
         /\ 100 * sets - base * (100 - 2 * week) < 100
         /\ base * (100 - 2 * week) - 100 * sets < 100

\* C19: the target set count stored for an exercise depends on the week: in
\* weeks 1..3 it is the base set count (the one of week 1), in a week w > 3
\* it is the base scaled by 1.0 - 0.02 * w and never zero.
C19_SetsScaledByWeek ==
    cpc = "done" =>
        \A i, j \in DOMAIN workouts :
            (/\ workouts[i].plan_id = workouts[j].plan_id
             /\ workouts[i].day = workouts[j].day
             /\ workouts[i].exercise_id = workouts[j].exercise_id
             /\ workouts[i].week = 1) =>
                C19_ScaledSets(workouts[j].target_sets, workouts[i].target_sets,
                               workouts[j].week)

\* the plan a get_daily_recommendation call of the sequence works on
C21_Plan ==
    IF cCall.plan_id # NoPlanId THEN {p \in Range(plans) : p.id = cCall.plan_id}
    ELSE {p \in Range(plans) :
            /\ p.user_id = 1 /\ p.is_active = 1
            /\ \A q \in Range(plans) : (q.user_id = 1 /\ q.is_active = 1) => p.id <= q.id}

\* the planned workouts of (plan, current week, today's weekday)
C21_PlannedToday(p) ==
    {w \in Range(workouts) :
        /\ w.plan_id = p.id
        /\ w.week = ((today - p.created_date) \div 7) + 1
        /\ w.day = (today % 7) + 1}

\* log_workout was called for the planned workout today
C21_RecordedToday(w) ==
    \E i \in DOMAIN logs : logs[i].workout_id = w.id /\ logs[i].completed_at = today

\* C21: once log_workout has been recorded today for every workout planned
\* for (plan, current week, today's weekday), get_daily_recommendation
\* answers completed: no logged workout is left in a recommendation of that
\* day, and the result is not scheduled.
C21_LoggedWorkoutsLeaveSchedule ==
    (cpc = "serving" /\ cCall # <<>> /\ cCall.op = "get_daily_recommendation") =>
        \A p \in C21_Plan :
            (/\ C21_PlannedToday(p) # {}
             /\ \A w \in C21_PlannedToday(p) : C21_RecordedToday(w))
                => cResult.type = "completed"

\* the active plans of the user, and the first of them
C27_Active == {p \in Range(plans) : p.user_id = 1 /\ p.is_active = 1}

C27_FirstActive == {p \in C27_Active : \A q \in C27_Active : p.id <= q.id}

\* C27: a call of get_daily_recommendation without a plan id works on the
\* user's first active plan: the planned workouts it returns are of that
\* plan, never of a plan that make_plan_inactive has switched off; when the
\* user has no active plan, or the plan id given does not exist, the result
\* is of type default.
C27_FirstActivePlan ==
    (cpc = "serving" /\ cCall # <<>> /\ cCall.op = "get_daily_recommendation") =>
        IF cCall.plan_id = NoPlanId
        THEN /\ C27_Active = {} => cResult.type = "default"
             /\ C27_Active # {} =>
                   /\ cResult.type # "default"
                   /\ cResult.plan_ids \subseteq {p.id : p \in C27_FirstActive}
        ELSE (\A p \in Range(plans) : p.id # cCall.plan_id) => cResult.type = "default"

\* the first plan was made inactive, and a call without a plan id returned
\* planned workouts of the second
C27_Witness ==
    /\ cpc = "serving" /\ cCall # <<>> /\ cCall.op = "get_daily_recommendation"
    /\ cCall.plan_id = NoPlanId
    /\ \E p \in Range(plans) : p.id = 1 /\ p.is_active = 0
    /\ \E w \in Range(workouts) : w.plan_id = 1
    /\ cResult.type = "alternative"
    /\ cResult.plan_ids = {2}

\* the user's only plans were made inactive, and a call without a plan id
\* answered default
C27_WitnessNoActive ==
    /\ cpc = "serving" /\ cCall # <<>> /\ cCall.op = "get_daily_recommendation"
    /\ cCall.plan_id = NoPlanId
    /\ plans # <<>>
    /\ C27_Active = {}
    /\ cResult.type = "default"

(***************************************************************************)
(* _validate_workout_plan on its own, over plans that meet each of its     *)
(* thresholds exactly, fall just short of it, and break several rules at   *)
(* once.                                                                   *)
(***************************************************************************)
ValidatorPatterns ==
    { <<1, 2, 3, 4, 5, 6, 8, 12, 10, 11>>,
      <<9, 16, 9, 16, 1, 2, 3, 4, 5, 6>>,
      <<10, 11, 12, 13, 14, 9, 17, 1, 2, 4>>,
      <<7, 15, 3, 10, 2, 4, 12, 9, 1, 5>>,
      <<7, 1, 1, 10, 8, 8, 3, 13, 8, 8>> }

ValidatorDayLens == {5, 6, 8, 10}

ValidatorDays ==
    {[i \in 1..l |-> Catalog[pat[i]]] : pat \in ValidatorPatterns, l \in ValidatorDayLens}

ValidatorPlans ==
    UNION {{[d \in 1..k |-> [key |-> [n |-> d, words |-> {}], exercises |-> days[d]]]
              : days \in [1..k -> ValidatorDays]}
           : k \in 1..MaxPlanDays}

ValidateInit ==
    /\ rpc = "input"
    /\ rGoal \in Goals
    /\ rPlan \in ValidatorPlans
    /\ rValid = <<>>
    /\ rFixed = <<>>
    /\ FocusIdle /\ ProgIdle /\ StoreIdle /\ RecIdle /\ CreateIdle

ValidateNext == RepairValidate

SpecValidate == ValidateInit /\ [][ValidateNext]_vars

\* how many exercises of the week carry the muscle among their body parts
C17_ExercisesFor(plan, muscle) ==
    Cardinality({i \in DOMAIN AllExercises(plan) :
                    muscle \in Range(AllExercises(plan)[i].body_part)})

\* how many exercises of the week pass the test
C17_Count(plan, Test(_)) ==
    Cardinality({i \in DOMAIN AllExercises(plan) : Test(AllExercises(plan)[i])})

C17_Total(plan) == Len(AllExercises(plan))

\* the threshold of the goal, in tenths
C17_GoalThreshold(plan, goal) ==
    CASE goal = "Body Building" ->
           10 * C17_Count(plan, IsIsolation) >= 3 * C17_Total(plan)
      [] goal = "Weight Loss" ->
           10 * C17_Count(plan, IsCardioForValidator) >= 15 * Len(plan)
      [] goal = "Mobility Exclusive" ->
           10 * C17_Count(plan, IsMobilityForValidator) >= 4 * C17_Total(plan)
      [] goal = "Body Weight Fitness" ->
           10 * C17_Count(plan, IsBodyweightForValidator) >= 7 * C17_Total(plan)
      [] OTHER -> TRUE

\* C17: _validate_workout_plan returns valid exactly when every day has at
\* least 6 exercises, each of chest, back, legs, shoulders, arms and core is
\* among the body parts of at least 2 exercises of the week, and the goal's
\* threshold holds: isolation >= 30% of all exercises (body building),
\* cardio/HIIT >= 1.5 per day (weight loss), mobility/flexibility >= 40%
\* (mobility exclusive), bodyweight equipment >= 70% (body weight fitness),
\* none for any other goal.
C17_ValidExactlyWhen ==
    rpc = "validated" =>
        (rValid.valid <=>
            /\ \A d \in DOMAIN rPlan : Len(rPlan[d].exercises) >= 6
            /\ \A m \in {"chest", "back", "legs", "shoulders", "arms", "core"} :
                   C17_ExercisesFor(rPlan, m) >= 2
            /\ C17_GoalThreshold(rPlan, rGoal))

\* a plan accepted with its goal's share met exactly
C17_Witness ==
    /\ rpc = "validated"
    /\ rValid.valid
    /\ rGoal = "Mobility Exclusive"
    /\ 10 * C17_Count(rPlan, IsMobilityForValidator) = 4 * C17_Total(rPlan)

\* the rule the plan breaks first, in the order days, muscle groups, goal
C20_EarliestViolated(plan, goal) ==
    IF \E d \in DOMAIN plan : Len(plan[d].exercises) < 6
    THEN "exercises"
    ELSE IF \E m \in {"chest", "back", "legs", "shoulders", "arms", "core"} :
                C17_ExercisesFor(plan, m) < 2
    THEN "muscles"
    ELSE CASE goal = "Body Building" -> "isolation"
           [] goal = "Weight Loss" -> "cardio"
           [] goal = "Mobility Exclusive" -> "mobility"
           [] goal = "Body Weight Fitness" -> "bodyweight"
           [] OTHER -> "ok"

\* C20: a rejected plan is reported with the earliest rule it breaks, in the
\* order (1) a day with fewer than 6 exercises, (2) a major muscle group with
\* fewer than 2 exercises, (3) the goal's threshold.
C20_EarliestRuleReported ==
    (rpc = "validated" /\ ~rValid.valid) =>
        rValid.reason = C20_EarliestViolated(rPlan, rGoal)

\* a plan with full days that breaks both the muscle rule and its goal's
\* threshold, reported for the muscle rule
C20_Witness ==
    /\ rpc = "validated"
    /\ ~rValid.valid
    /\ \A d \in DOMAIN rPlan : Len(rPlan[d].exercises) >= 6
    /\ \E m \in MajorMuscles : C17_ExercisesFor(rPlan, m) < 2
    /\ ~C17_GoalThreshold(rPlan, rGoal)
    /\ rValid.reason = "muscles"

\* a plan with a short day that also breaks the two later rules
C20_WitnessShortDay ==
    /\ rpc = "validated"
    /\ \E d \in DOMAIN rPlan : Len(rPlan[d].exercises) < 6
    /\ \E m \in MajorMuscles : C17_ExercisesFor(rPlan, m) < 2
    /\ ~C17_GoalThreshold(rPlan, rGoal)
    /\ rValid.reason = "exercises"

(***************************************************************************)
(* _calculate_sets_reps on its own, for every catalog exercise at each     *)
(* difficulty, every experience level and every goal.                      *)
(***************************************************************************)
AllExperienceLevels == {"Beginner", "Intermediate", "Advanced"}

SetsExercises ==
    {Leveled(Catalog[i], level) : i \in DOMAIN Catalog, level \in AllExperienceLevels}

SetsInit ==
    /\ cpc = "input"
    /\ \E e \in SetsExercises, level \in AllExperienceLevels, goal \in Goals :
          cCall = [exercise |-> e, experience_level |-> level, goal |-> goal]
    /\ cResult = <<>>
    /\ cGrid = <<>>
    /\ StoreIdle
    /\ FocusIdle /\ ProgIdle /\ RepairIdle /\ RecIdle

\* a call of _calculate_sets_reps
SetsCalculate ==
    /\ cpc = "input"
    /\ cResult' = CalculateSetsReps(cCall.exercise, cCall.experience_level, cCall.goal)
    /\ cpc' = "done"
    /\ UNCHANGED <<cCall, cGrid, storeVars, otherThanCreate>>

SetsNext == SetsCalculate

SpecSets == SetsInit /\ [][SetsNext]_vars

\* the sets of the reference table
C24_TableSets(exercise_type, level) ==
    CASE exercise_type = "Cardio" -> 3
      [] exercise_type = "Mobility" -> 2
      [] OTHER -> CASE level = "Beginner" -> 3
                    [] level = "Intermediate" -> 4
                    [] level = "Advanced" -> 5

\* the reps of the reference table, with the 5 reps of a weight-loss goal
C24_TableReps(exercise_type, goal) ==
    LET reps == CASE exercise_type = "Compound" ->
                       (IF goal = "Sports and Athletics" THEN 6
                        ELSE IF goal = "Body Building" THEN 8 ELSE 10)
                  [] exercise_type = "Isolation" ->
                       (IF goal = "Body Building" THEN 12 ELSE 15)
                  [] exercise_type = "Cardio" -> 20
                  [] exercise_type = "Mobility" -> 10
    IN IF goal = "Weight Loss" /\ exercise_type # "Cardio" THEN reps + 5 ELSE reps

C24_Categories == {"Compound", "Isolation", "Cardio", "Mobility"}

C24_EqualsTable ==
    /\ cResult.sets = C24_TableSets(cCall.exercise.exercise_type, cCall.experience_level)
    /\ cResult.reps = C24_TableReps(cCall.exercise.exercise_type, cCall.goal)

C25_AdvancedLosesFiveReps ==
    (cpc = "done" /\ cCall.goal = "Body Weight Fitness"
        /\ cCall.exercise.exercise_type \in C24_Categories) =>
        LET r == C24_TableReps(cCall.exercise.exercise_type, cCall.goal) IN
        cResult.reps = IF cCall.exercise.level = "Advanced"
                       THEN (IF r - 5 >= 5 THEN r - 5 ELSE 5)
                       ELSE r

(***************************************************************************)
(* The two read-only calls of the engine side by side: a call of           *)
(* get_daily_recommendation over a populated store and a call of           *)
(* calculate_suggested_progression on a history list, in either order.     *)
(***************************************************************************)
ReadsHistories ==
    { <<>>,
      <<[sets_completed |-> 4, target_sets |-> 3, reps_completed |-> 10,
         target_reps |-> 10, weight |-> <<100>>]>>,
      <<[sets_completed |-> 3, target_sets |-> 3, reps_completed |-> 8,
         target_reps |-> 10, weight |-> <<100>>],
        [sets_completed |-> 2, target_sets |-> 3, reps_completed |-> 8,
         target_reps |-> 10, weight |-> NoWeight]>> }

ReadsInit ==
    /\ today \in Dates
    /\ plans \in PlanTables
    /\ \E days \in PlannedDaySets : workouts = WorkoutGrid(plans, days)
    /\ logs \in {l \in LogTables(today) : Len(l) \in {0, 2}}
    /\ recpc = "input"
    /\ recCall = <<>>
    /\ recResult = <<>>
    /\ ppc = "input"
    /\ history \in ReadsHistories
    /\ suggestion = <<>>
    /\ FocusIdle /\ RepairIdle /\ CreateIdle

ReadsNext == RecDaily \/ ProgSuggest

SpecReads == ReadsInit /\ [][ReadsNext]_vars

\* C30: get_daily_recommendation and calculate_suggested_progression write
\* nothing: the plans, planned workouts and workout logs of the store are
\* the same before and after every call, whichever variant is returned, and
\* the history list given to calculate_suggested_progression is unchanged.
\* (The catalog is the fixed table Catalog, which no step can change.)
C30_NoWrites ==
    [][/\ plans' = plans
       /\ workouts' = workouts
       /\ logs' = logs
       /\ history' = history]_vars

\* both calls have returned, over a store with plans, planned workouts and
\* logs and on a history of two entries
C30_Witness ==
    /\ recpc = "done" /\ ppc = "done"
    /\ recResult.type = "completed"
    /\ suggestion # <<>>
    /\ plans # <<>> /\ workouts # <<>> /\ logs # <<>>
    /\ Len(history) = 2

====
